---- MODULE Spec2Model ----
(***************************************************************************)
(* Model of the condition-based image selection engine of alice-display   *)
(* (scripts/select_image.py): the catalog, the selection history, the      *)
(* matcher, the fallback cascade, the weighted draw and the history store. *)
(* Python strings are sequences of one-character strings, dicts are        *)
(* functions whose DOMAIN is the set of keys present, lists are sequences, *)
(* and an Optional result is a sequence of length 0 (None) or 1.           *)
(***************************************************************************)
EXTENDS Integers, Sequences, FiniteSets, TLC

VARIABLES images, history, now, pc, call, result, ncalls, recorded, files

vars == <<images, history, now, pc, call, result, ncalls, recorded, files>>

(* ------------------------------ bounds --------------------------------- *)
MaxImages == 2
MaxCalls == 2
MaxRecords == 150
RGrid == 3

(* ------------------------- Python primitives --------------------------- *)
LowerOf ==
  ("A" :> "a") @@ ("B" :> "b") @@ ("C" :> "c") @@ ("D" :> "d") @@ ("E" :> "e") @@ ("F" :> "f")
  @@ ("G" :> "g") @@ ("H" :> "h") @@ ("I" :> "i") @@ ("J" :> "j") @@ ("K" :> "k") @@ ("L" :> "l")
  @@ ("M" :> "m") @@ ("N" :> "n") @@ ("O" :> "o") @@ ("P" :> "p") @@ ("Q" :> "q") @@ ("R" :> "r")
  @@ ("S" :> "s") @@ ("T" :> "t") @@ ("U" :> "u") @@ ("V" :> "v") @@ ("W" :> "w") @@ ("X" :> "x")
  @@ ("Y" :> "y") @@ ("Z" :> "z")

\* str.lower()
lower(s) == [i \in 1..Len(s) |-> IF s[i] \in DOMAIN LowerOf THEN LowerOf[s[i]] ELSE s[i]]

Whitespace == {" ", "\t", "\n", "\r"}

SetMin(S) == CHOOSE x \in S : \A y \in S : x <= y
SetMax(S) == CHOOSE x \in S : \A y \in S : x >= y

\* str.strip()
strip(s) ==
  LET keep == {i \in 1..Len(s) : s[i] \notin Whitespace}
  IN  IF keep = {} THEN << >> ELSE SubSeq(s, SetMin(keep), SetMax(keep))

\* a in b, for strings
in_(a, b) ==
  \/ a = << >>
  \/ \E i \in 1..(Len(b) - Len(a) + 1) : b[i] = a[1] /\ SubSeq(b, i, i + Len(a) - 1) = a

\* dict.get(k, dflt)
Get(d, k, dflt) == IF k \in DOMAIN d THEN d[k] ELSE dflt

\* the labels of the tables below, spelled out
L ==
  [ Sunny |-> <<"S", "u", "n", "n", "y">>,
    PartlyCloudy |-> <<"P", "a", "r", "t", "l", "y", " ", "C", "l", "o", "u", "d", "y">>,
    Cloudy |-> <<"C", "l", "o", "u", "d", "y">>,
    Overcast |-> <<"O", "v", "e", "r", "c", "a", "s", "t">>,
    Rainy |-> <<"R", "a", "i", "n", "y">>,
    Stormy |-> <<"S", "t", "o", "r", "m", "y">>,
    Snowy |-> <<"S", "n", "o", "w", "y">>,
    Foggy |-> <<"F", "o", "g", "g", "y">>,
    Windy |-> <<"W", "i", "n", "d", "y">>,
    Dawn |-> <<"D", "a", "w", "n">>,
    EarlyMorning |-> <<"E", "a", "r", "l", "y", " ", "M", "o", "r", "n", "i", "n", "g">>,
    Morning |-> <<"M", "o", "r", "n", "i", "n", "g">>,
    GoldenHour |-> <<"G", "o", "l", "d", "e", "n", " ", "H", "o", "u", "r">>,
    Midday |-> <<"M", "i", "d", "d", "a", "y">>,
    Afternoon |-> <<"A", "f", "t", "e", "r", "n", "o", "o", "n">>,
    Evening |-> <<"E", "v", "e", "n", "i", "n", "g">>,
    Night |-> <<"N", "i", "g", "h", "t">>,
    LateNight |-> <<"L", "a", "t", "e", " ", "N", "i", "g", "h", "t">>,
    ClearNight |-> <<"C", "l", "e", "a", "r", " ", "N", "i", "g", "h", "t">>,
    Sleeping |-> <<"S", "l", "e", "e", "p", "i", "n", "g">>,
    WakingUp |-> <<"W", "a", "k", "i", "n", "g", " ", "U", "p">>,
    MorningRoutine |-> <<"M", "o", "r", "n", "i", "n", "g", " ", "R", "o", "u", "t", "i", "n", "e">>,
    Breakfast |-> <<"B", "r", "e", "a", "k", "f", "a", "s", "t">>,
    Exercise |-> <<"E", "x", "e", "r", "c", "i", "s", "e">>,
    Work |-> <<"W", "o", "r", "k">>,
    Outdoor |-> <<"O", "u", "t", "d", "o", "o", "r">>,
    Creative |-> <<"C", "r", "e", "a", "t", "i", "v", "e">>,
    Lunch |-> <<"L", "u", "n", "c", "h">>,
    Leisure |-> <<"L", "e", "i", "s", "u", "r", "e">>,
    Dinner |-> <<"D", "i", "n", "n", "e", "r">>,
    Reading |-> <<"R", "e", "a", "d", "i", "n", "g">>,
    Gaming |-> <<"G", "a", "m", "i", "n", "g">>,
    Movie |-> <<"M", "o", "v", "i", "e">>,
    WindDown |-> <<"W", "i", "n", "d", " ", "D", "o", "w", "n">>,
    Skincare |-> <<"S", "k", "i", "n", "c", "a", "r", "e">>,
    PreparingForBed |-> <<"P", "r", "e", "p", "a", "r", "i", "n", "g", " ", "f", "o", "r", " ", "B", "e", "d">> ]

WEATHER_FALLBACKS ==
  (L.Sunny :> << L.PartlyCloudy, L.Cloudy >>)
  @@ (L.PartlyCloudy :> << L.Sunny, L.Cloudy >>)
  @@ (L.Cloudy :> << L.Overcast, L.PartlyCloudy >>)
  @@ (L.Overcast :> << L.Cloudy, L.Rainy >>)
  @@ (L.Rainy :> << L.Stormy, L.Cloudy, L.Overcast >>)
  @@ (L.Stormy :> << L.Rainy, L.Overcast >>)
  @@ (L.Snowy :> << L.Cloudy, L.Overcast, L.Foggy >>)
  @@ (L.Foggy :> << L.Cloudy, L.Overcast >>)
  @@ (L.Windy :> << L.Cloudy, L.PartlyCloudy >>)

TIME_FALLBACKS ==
  (L.Dawn :> << L.EarlyMorning, L.Morning, L.GoldenHour >>)
  @@ (L.EarlyMorning :> << L.Dawn, L.Morning >>)
  @@ (L.Morning :> << L.Dawn, L.Midday, L.EarlyMorning >>)
  @@ (L.Midday :> << L.Afternoon, L.Morning >>)
  @@ (L.Afternoon :> << L.Midday, L.Evening, L.GoldenHour >>)
  @@ (L.GoldenHour :> << L.Afternoon, L.Evening >>)
  @@ (L.Evening :> << L.GoldenHour, L.Afternoon, L.Night >>)
  @@ (L.Night :> << L.LateNight, L.Evening, L.Dawn >>)
  @@ (L.LateNight :> << L.Night, L.Dawn >>)
  @@ (L.ClearNight :> << L.Night, L.LateNight, L.Evening >>)

ACTIVITY_BY_HOUR ==
  (22 :> << L.Sleeping >>)
  @@ (23 :> << L.Sleeping >>)
  @@ (0 :> << L.Sleeping >>)
  @@ (1 :> << L.Sleeping >>)
  @@ (2 :> << L.Sleeping >>)
  @@ (3 :> << L.Sleeping >>)
  @@ (4 :> << L.Sleeping >>)
  @@ (5 :> << L.Sleeping >>)
  @@ (6 :> << L.Sleeping, L.WakingUp, L.MorningRoutine >>)
  @@ (7 :> << L.WakingUp, L.MorningRoutine, L.Breakfast, L.Exercise >>)
  @@ (8 :> << L.Breakfast, L.Exercise, L.Work, L.Outdoor >>)
  @@ (9 :> << L.Work, L.Exercise, L.Outdoor, L.Creative >>)
  @@ (10 :> << L.Work, L.Outdoor, L.Creative, L.Exercise >>)
  @@ (11 :> << L.Work, L.Outdoor, L.Creative >>)
  @@ (12 :> << L.Lunch, L.Work, L.Outdoor >>)
  @@ (13 :> << L.Lunch, L.Work, L.Leisure, L.Outdoor >>)
  @@ (14 :> << L.Work, L.Leisure, L.Creative, L.Outdoor >>)
  @@ (15 :> << L.Work, L.Leisure, L.Creative, L.Outdoor >>)
  @@ (16 :> << L.Leisure, L.Creative, L.Outdoor, L.Exercise >>)
  @@ (17 :> << L.Leisure, L.Creative, L.Outdoor >>)
  @@ (18 :> << L.Dinner, L.Leisure, L.Creative >>)
  @@ (19 :> << L.Dinner, L.Leisure, L.Reading, L.Gaming >>)
  @@ (20 :> << L.Leisure, L.Reading, L.Gaming, L.Movie >>)
  @@ (21 :> << L.WindDown, L.Reading, L.Skincare, L.PreparingForBed >>)


(* ------------------------------ catalog -------------------------------- *)
Url == <<"x">>
Blank == <<" ">>
Purim == <<"P", "u", "r", "i", "m">>
SleepingAlice == <<"S", "l", "e", "e", "p", "i", "n", "g", " ", "A", "l", "i", "c", "e">>

\* Records the catalogs of the model are drawn from; ids are unique.
Pool ==
  << [id |-> "1", weather |-> L.Sunny, time_period |-> L.Morning, activity |-> L.Work,
      holiday |-> << >>, cloudinary_url |-> Url],
     [id |-> "2", weather |-> L.Sunny, time_period |-> L.Morning, activity |-> L.Sleeping],
     [id |-> "3", weather |-> L.Sunny, time_period |-> L.Morning, activity |-> L.Work,
      holiday |-> Purim, cloudinary_url |-> Url],
     [id |-> "4", weather |-> L.Cloudy, time_period |-> L.Morning, activity |-> L.Work,
      holiday |-> << >>, cloudinary_url |-> Url],
     [id |-> "5", weather |-> L.Rainy, time |-> L.Night, activity |-> L.Sleeping,
      holiday |-> << >>, rating_score |-> 0, total_ratings |-> 0, cloudinary_url |-> Url],
     [id |-> "6", weather |-> L.Overcast, time_period |-> L.Night, activity |-> L.Work,
      cloudinary_url |-> Url],
     [id |-> "7", weather |-> L.Stormy, time_period |-> L.Night, activity |-> L.Creative,
      cloudinary_url |-> Blank],
     [id |-> "8", weather |-> L.Sunny, time_period |-> L.Dawn, activity |-> L.Work,
      cloudinary_url |-> Url],
     [id |-> "9", time_period |-> L.LateNight, title |-> SleepingAlice,
      cloudinary_url |-> Url],
     [id |-> "10", weather |-> L.Stormy, time_period |-> L.Night, activity |-> L.Leisure,
      holiday |-> Blank, rating_score |-> 10, total_ratings |-> 10, cloudinary_url |-> Url] >>

\* the catalogs: the sub-lists of Pool of at most MaxImages records
RECURSIVE SubLists(_, _)
SubLists(k, n) ==
  IF k > Len(Pool) THEN {<< >>}
  ELSE LET rest == SubLists(k + 1, n)
       IN  rest \cup (IF n = 0 THEN {} ELSE {<<Pool[k]>> \o s : s \in SubLists(k + 1, n - 1)})

Catalogs == SubLists(1, MaxImages)

\* query labels, hours of day and draws the model calls select with
QueryWeather == {L.Sunny, L.Stormy}
QueryTime == {L.Morning, L.Night}
Hours == {3, 12}
Draws == 0..(RGrid - 1)

(* ---------------------------- history store ---------------------------- *)
HistoryCap == 100
RecentHours == 24

\* list[:n], where list[-n:] is meant
FirstN(s, n) == IF Len(s) <= n THEN s ELSE SubSeq(s, 1, n)

\* list[-n:]
LastN(s, n) == IF Len(s) <= n THEN s ELSE SubSeq(s, Len(s) - n + 1, Len(s))

\* the entry _save_history appends (the id and the timestamp of it)
history_entry(selected_image) ==
  [id |-> Get(selected_image, "id", "None"), timestamp |-> now]

\* _save_history without the truncation to the last 100 selections
_save_history_untruncated(selected) ==
  IF "selections" \notin DOMAIN history
  THEN [raised |-> "KeyError", history |-> history]
  ELSE IF selected = << >>
  THEN [raised |-> "AttributeError", history |-> history]
  ELSE [raised |-> "",
        history |-> [history EXCEPT !.selections = Append(@, history_entry(selected[1]))]]

\* _save_history recording the selection twice
_save_history_twice(selected) ==
  IF "selections" \notin DOMAIN history
  THEN [raised |-> "KeyError", history |-> history]
  ELSE IF selected = << >>
  THEN [raised |-> "AttributeError", history |-> history]
  ELSE [raised |-> "",
        history |-> [history EXCEPT !.selections =
                       LastN(Append(Append(@, history_entry(selected[1])),
                                    history_entry(selected[1])), HistoryCap)]]

\* ImageSelector._save_history(selected): the new self.history, or the
\* exception raised: KeyError when the loaded history has no "selections"
\* list, AttributeError when selected is None
_save_history(selected) ==
  IF "selections" \notin DOMAIN history
  THEN [raised |-> "KeyError", history |-> history]
  ELSE IF selected = << >>
  THEN [raised |-> "AttributeError", history |-> history]
  ELSE [raised |-> "",
        history |-> [history EXCEPT !.selections =
                       LastN(Append(@, history_entry(selected[1])), HistoryCap)]]

\* datetime.fromisoformat accepts the entry's timestamp: an entry whose
\* timestamp text is no ISO date is marked timestamp_unparsable (ValueError)
parses_as_iso(selection) == ~Get(selection, "timestamp_unparsable", FALSE)

\* the ids of the selections of hist made less than hours before the time at
recent_ids_of(hist, at, hours) ==
  LET sels == Get(hist, "selections", << >>)
      cutoff == at - hours
  IN  {sels[i].id : i \in {j \in 1..Len(sels) :
                             /\ "timestamp" \in DOMAIN sels[j]
                             /\ parses_as_iso(sels[j])
                             /\ sels[j].timestamp > cutoff
                             /\ "id" \in DOMAIN sels[j]}}

\* _get_recent_ids with the comparison turned round: the selections made
\* before the cutoff
_get_recent_ids_older(hours) ==
  LET sels == Get(history, "selections", << >>)
  IN  {sels[i].id : i \in {j \in 1..Len(sels) :
                             /\ "timestamp" \in DOMAIN sels[j]
                             /\ sels[j].timestamp < now - hours
                             /\ "id" \in DOMAIN sels[j]}}

\* ImageSelector._get_recent_ids
_get_recent_ids(hours) == recent_ids_of(history, now, hours)

(* ------------------------------- matcher ------------------------------- *)
\* img.get("cloudinary_url") and img.get("cloudinary_url").strip()
has_url(img) ==
  /\ "cloudinary_url" \in DOMAIN img
  /\ img.cloudinary_url # << >>
  /\ strip(img.cloudinary_url) # << >>

is_holiday(img) == strip(Get(img, "holiday", << >>)) # << >>

weather_match(img, weather) ==
  LET img_weather == lower(Get(img, "weather", << >>))
  IN  in_(lower(weather), img_weather) \/ in_(img_weather, lower(weather))

time_match(img, time_period) ==
  LET img_time == lower(Get(img, "time_period", Get(img, "time", << >>)))
  IN  in_(lower(time_period), img_time) \/ in_(img_time, lower(time_period))

activity_match(img, preferred_activities) ==
  \E k \in 1..Len(preferred_activities) :
    LET pref_lower == lower(preferred_activities[k])
    IN  \/ in_(pref_lower, lower(Get(img, "activity", << >>)))
        \/ in_(pref_lower, lower(Get(img, "title", << >>)))

\* "a or b" on lists: a unless it is empty
OrElse(a, b) == IF a # << >> THEN a ELSE b

\* _find_matches, lines 373-396: the images that pass the four filters
matches_of(weather, time_period, exclude_ids) ==
  LET Pass(img) == /\ ~is_holiday(img)
                   /\ weather_match(img, weather)
                   /\ time_match(img, time_period)
                   /\ Get(img, "id", "None") \notin exclude_ids
  IN  SelectSeq(images, Pass)

\* the activity preference as a tie-break only: the matches are kept
activity_override_soft(matches, preferred_activities) == matches

\* _find_matches, lines 398-411: the activity matches replace the matches
\* when there are any
activity_override(matches, preferred_activities) ==
  LET Act(img) == activity_match(img, preferred_activities)
  IN  OrElse(SelectSeq(matches, Act), matches)

\* _find_matches without the CDN requirement
images_with_cdn_unfiltered(matches) == matches

\* _find_matches, lines 413-417
images_with_cdn(matches) == SelectSeq(matches, has_url)

\* ImageSelector._find_matches
_find_matches(weather, time_period, exclude_ids, preferred_activities) ==
  images_with_cdn(activity_override(matches_of(weather, time_period, exclude_ids),
                                    preferred_activities))

(* ----------------------------- weighted draw --------------------------- *)
\* a weight that trusts the score of a record however few its ratings
weight10_unthresholded(img) ==
  LET w == 10 + Get(img, "rating_score", 0)
  IN  IF w > 30 THEN 30 ELSE IF w < 1 THEN 1 ELSE w

\* a weight whose floor is 0.0 instead of 0.1
weight10_floor_zero(img) ==
  LET w == 10 + Get(img, "rating_score", 0)
  IN  IF Get(img, "total_ratings", 0) >= 5
      THEN (IF w > 30 THEN 30 ELSE IF w < 0 THEN 0 ELSE w)
      ELSE 10

\* weight of a candidate, in tenths
weight10(img) ==
  LET rating_score == Get(img, "rating_score", 0)
      total_ratings == Get(img, "total_ratings", 0)
      w == 10 + rating_score
  IN  IF total_ratings >= 5
      THEN (IF w > 30 THEN 30 ELSE IF w < 1 THEN 1 ELSE w)
      ELSE 10

RECURSIVE cumulative10(_, _)
cumulative10(candidates, i) ==
  IF i = 0 THEN 0 ELSE cumulative10(candidates, i - 1) + weight10(candidates[i])

\* the first index whose cumulative probability reaches the draw r / RGrid
RECURSIVE first_hit(_, _, _, _)
first_hit(candidates, r, total_weight, i) ==
  IF i >= Len(candidates) \/ r * total_weight <= cumulative10(candidates, i) * RGrid
  THEN i
  ELSE first_hit(candidates, r, total_weight, i + 1)

\* ImageSelector._weighted_random_choice
_weighted_random_choice(candidates, r) ==
  IF candidates = << >> THEN << >>
  ELSE IF Len(candidates) = 1 THEN <<candidates[1]>>
  ELSE <<candidates[first_hit(candidates, r, cumulative10(candidates, Len(candidates)), 1)]>>

(* ------------------------------- selector ------------------------------ *)
\* a weather chain that starts over with the label asked for
weather_fallbacks_with_self(weather) == <<weather>> \o Get(WEATHER_FALLBACKS, weather, << >>)

\* WEATHER_FALLBACKS.get(weather, []) and TIME_FALLBACKS.get(time_period, [])
weather_fallbacks(weather) == Get(WEATHER_FALLBACKS, weather, << >>)
time_fallbacks(time_period) == Get(TIME_FALLBACKS, time_period, << >>)

\* "for fallback_weather in chain[k..]: candidates = _find_matches(...);
\*  if candidates: break"
RECURSIVE weather_loop(_, _, _, _, _)
weather_loop(chain, k, time_period, exclude_ids, preferred_activities) ==
  IF k > Len(chain) THEN << >>
  ELSE OrElse(_find_matches(chain[k], time_period, exclude_ids, preferred_activities),
              weather_loop(chain, k + 1, time_period, exclude_ids, preferred_activities))

\* "for fallback_time in chain[k..]: candidates = _find_matches(...);
\*  if candidates: break"
RECURSIVE time_loop(_, _, _, _, _)
time_loop(weather, chain, k, exclude_ids, preferred_activities) ==
  IF k > Len(chain) THEN << >>
  ELSE OrElse(_find_matches(weather, chain[k], exclude_ids, preferred_activities),
              time_loop(weather, chain, k + 1, exclude_ids, preferred_activities))

\* the combined fallback with the loops exchanged: time outer, weather inner
RECURSIVE time_outer_loop(_, _, _, _, _, _)
time_outer_loop(wchain, k, tchain, j, exclude_ids, preferred_activities) ==
  IF j > Len(tchain) THEN << >>
  ELSE OrElse(weather_loop(wchain, k, tchain[j], exclude_ids, preferred_activities),
              time_outer_loop(wchain, k, tchain, j + 1, exclude_ids, preferred_activities))

combined_time_outer(wchain, k, tchain, exclude_ids, preferred_activities) ==
  time_outer_loop(wchain, k, tchain, 1, exclude_ids, preferred_activities)

\* the nested loops of the combined fallback: weather outer, time inner
RECURSIVE combined_loop(_, _, _, _, _)
combined_loop(wchain, k, tchain, exclude_ids, preferred_activities) ==
  IF k > Len(wchain) THEN << >>
  ELSE OrElse(time_loop(wchain[k], tchain, 1, exclude_ids, preferred_activities),
              combined_loop(wchain, k + 1, tchain, exclude_ids, preferred_activities))

\* the stages with the time fallbacks tried before the weather fallbacks
stages_time_first(weather, time_period, exclude_ids, preferred_activities) ==
  OrElse(_find_matches(weather, time_period, exclude_ids, preferred_activities),
  OrElse(time_loop(weather, time_fallbacks(time_period), 1, exclude_ids,
                   preferred_activities),
  OrElse(weather_loop(weather_fallbacks(weather), 1, time_period, exclude_ids,
                      preferred_activities),
         combined_loop(weather_fallbacks(weather), 1, time_fallbacks(time_period),
                       exclude_ids, preferred_activities))))

\* select, lines 187-215: exact, weather fallback, time fallback, combined
stages_1_to_4(weather, time_period, exclude_ids, preferred_activities) ==
  OrElse(_find_matches(weather, time_period, exclude_ids, preferred_activities),
  OrElse(weather_loop(weather_fallbacks(weather), 1, time_period, exclude_ids,
                      preferred_activities),
  OrElse(time_loop(weather, time_fallbacks(time_period), 1, exclude_ids,
                   preferred_activities),
         combined_loop(weather_fallbacks(weather), 1, time_fallbacks(time_period),
                       exclude_ids, preferred_activities))))

is_sleeping_hour(hour) == hour \in {22, 23, 0, 1, 2, 3, 4, 5}

\* has_activity_match(cands, prefs) of select: the activity field only
has_activity_match(cands, prefs) ==
  \/ prefs = << >>
  \/ \E i \in 1..Len(cands) : \E k \in 1..Len(prefs) :
       in_(lower(prefs[k]), lower(Get(cands[i], "activity", << >>)))

\* has_cdn(cands) of select
has_cdn(cands) == \E i \in 1..Len(cands) : has_url(cands[i])

\* select, lines 244-248: the loop leaves the first fallback's matches that
\* have a CDN image, or else the matches of the last fallback tried
RECURSIVE sleeping_loop(_, _, _, _, _)
sleeping_loop(chain, k, time_period, preferred_activities, sleeping_candidates) ==
  IF k > Len(chain) THEN sleeping_candidates
  ELSE IF has_cdn(_find_matches(chain[k], time_period, {}, preferred_activities))
       THEN _find_matches(chain[k], time_period, {}, preferred_activities)
       ELSE sleeping_loop(chain, k + 1, time_period, preferred_activities,
                          _find_matches(chain[k], time_period, {}, preferred_activities))

\* select, lines 249-252
accept_sleeping(candidates, sleeping_candidates) ==
  IF sleeping_candidates # << >> /\ has_cdn(sleeping_candidates)
  THEN SelectSeq(sleeping_candidates, has_url)
  ELSE candidates

\* select, lines 243-248
or_sleeping_fallback(first, weather, time_period, preferred_activities) ==
  IF first = << >> \/ ~has_cdn(first)
  THEN sleeping_loop(weather_fallbacks(weather), 1, time_period, preferred_activities, first)
  ELSE first

\* select, lines 234-252: the sleeping-hour branch
sleeping_override(candidates, weather, time_period, hour, avoid_recent, preferred_activities) ==
  IF /\ avoid_recent
     /\ is_sleeping_hour(hour)
     /\ preferred_activities # << >>
     /\ ~has_activity_match(candidates, preferred_activities)
  THEN accept_sleeping(candidates,
         or_sleeping_fallback(_find_matches(weather, time_period, {}, preferred_activities),
                              weather, time_period, preferred_activities))
  ELSE candidates

\* select, lines 255-265: the activity restriction dropped
relax_activity(candidates, weather, time_period, recent_ids, preferred_activities) ==
  IF candidates = << >> /\ preferred_activities # << >>
  THEN OrElse(_find_matches(weather, time_period, recent_ids, << >>),
              weather_loop(weather_fallbacks(weather), 1, time_period, recent_ids, << >>))
  ELSE candidates

\* select, lines 185-265: the candidates before recency relaxation
cascade(weather, time_period, hour, avoid_recent, recent_ids, preferred_activities) ==
  relax_activity(
    sleeping_override(
      stages_1_to_4(weather, time_period, recent_ids, preferred_activities),
      weather, time_period, hour, avoid_recent, preferred_activities),
    weather, time_period, recent_ids, preferred_activities)

\* the filter of the ultimate fallback applied in the sleeping hours 22-05 only
quiet_hours_filter_sleeping_hours(cdn_images, hour) ==
  LET Quiet(img) ==
        activity_match(img, <<lower(L.Sleeping), lower(L.WakingUp), lower(L.MorningRoutine)>>)
  IN  IF hour >= 22 \/ hour <= 5
      THEN OrElse(SelectSeq(cdn_images, Quiet), cdn_images)
      ELSE cdn_images

\* select, lines 277-290: sleeping/waking images only during hours 22-07
quiet_hours_filter(cdn_images, hour) ==
  LET Quiet(img) ==
        activity_match(img, <<lower(L.Sleeping), lower(L.WakingUp), lower(L.MorningRoutine)>>)
  IN  IF hour >= 22 \/ hour <= 7
      THEN OrElse(SelectSeq(cdn_images, Quiet), cdn_images)
      ELSE cdn_images

\* the ultimate fallback without its last resort, the whole catalog
ultimate_fallback_cdn_only(hour) ==
  quiet_hours_filter(SelectSeq(images, has_url), hour)

\* select, lines 272-296: any image with a CDN URL, and the whole catalog as
\* the last resort
ultimate_fallback(hour) ==
  OrElse(quiet_hours_filter(SelectSeq(images, has_url), hour), images)

\* the end of select with the save_history flag ignored
finish_always_saves(selected, save_history, saved) ==
  [selected |-> IF saved.raised = "" THEN selected ELSE << >>,
   raised |-> saved.raised, history |-> saved.history]

\* select, lines 298-304: the draw and the history record
finish(selected, save_history, saved) ==
  IF save_history
  THEN [selected |-> IF saved.raised = "" THEN selected ELSE << >>,
        raised |-> saved.raised, history |-> saved.history]
  ELSE [selected |-> selected, raised |-> "", history |-> history]

choose_and_save(candidates, r, save_history) ==
  finish(_weighted_random_choice(candidates, r), save_history,
         _save_history(_weighted_random_choice(candidates, r)))

\* select that goes to the ultimate fallback without relaxing recency
after_cascade_no_relax(candidates, weather, time_period, hour, avoid_recent) ==
  OrElse(candidates, ultimate_fallback(hour))

\* select, lines 185-296: the candidates the draw is made from; when none
\* is found and avoid_recent is set, select calls itself with avoid_recent=False
RECURSIVE final_candidates(_, _, _, _)
RECURSIVE after_cascade(_, _, _, _, _)
after_cascade(candidates, weather, time_period, hour, avoid_recent) ==
  IF candidates = << >> /\ avoid_recent
  THEN final_candidates(weather, time_period, hour, FALSE)
  ELSE OrElse(candidates, ultimate_fallback(hour))

final_candidates(weather, time_period, hour, avoid_recent) ==
  after_cascade(
    cascade(weather, time_period, hour, avoid_recent,
            IF avoid_recent THEN _get_recent_ids(RecentHours) ELSE {},
            Get(ACTIVITY_BY_HOUR, hour, << >>)),
    weather, time_period, hour, avoid_recent)

\* select without the early return on an empty catalog
select_from_unguarded(candidates, save_history, r) ==
  choose_and_save(candidates, r, save_history)

\* select, lines 171-173 and 298-304, given the candidates of lines 185-296
select_from(candidates, save_history, r) ==
  IF images = << >>
  THEN [selected |-> << >>, raised |-> "", history |-> history]
  ELSE choose_and_save(candidates, r, save_history)

\* ImageSelector.select: what it returns (selected: << >> for None), the
\* exception it raises if any, and self.history afterwards
select(weather, time_period, hour, avoid_recent, save_history, r) ==
  select_from(final_candidates(weather, time_period, hour, avoid_recent), save_history, r)

(* ------------------------------ the system ----------------------------- *)
NoCall == [op |-> "none"]

\* the data files the updater keeps beside the selection history: the weather
\* file, the weather cache, the display-control file, the update history and
\* the selected-image file of the select_image command, and the Cloudinary
\* URL mapping select_image_new.py reads
\* (a file that does not exist is << >>)
NoFiles ==
  [weather |-> << >>, cache |-> << >>, control |-> << >>, update_history |-> << >>,
   selected_image |-> << >>, cloudinary_urls |-> << >>]
NoResult == [selected |-> << >>, raised |-> ""]

Init ==
  /\ images \in Catalogs
  /\ history = [selections |-> << >>]
  /\ now = 0
  /\ pc = "idle"
  /\ call = NoCall
  /\ result = NoResult
  /\ ncalls = 0
  /\ files = NoFiles
  /\ recorded = << >>

\* one call of ImageSelector.select
Select(weather, time_period, hour, avoid_recent) ==
  /\ pc = "idle"
  /\ ncalls < MaxCalls
  /\ \E candidates \in {final_candidates(weather, time_period, hour, avoid_recent)} :
       \E save_history \in BOOLEAN, r \in Draws :
         \E out \in {select_from(candidates, save_history, r)} :
           /\ result' = [selected |-> out.selected, raised |-> out.raised]
           /\ history' = out.history
           /\ call' = [op |-> "select", weather |-> weather, time_period |-> time_period,
                       hour |-> hour, avoid_recent |-> avoid_recent,
                       save_history |-> save_history,
                       history |-> history, now |-> now]
  /\ ncalls' = ncalls + 1
  /\ pc' = "returned"
  /\ UNCHANGED <<images, now, recorded, files>>

\* the caller takes the result; the selector is ready for the next call
Return ==
  /\ pc = "returned"
  /\ pc' = "idle"
  /\ call' = NoCall
  /\ result' = NoResult
  /\ UNCHANGED <<images, history, now, ncalls, recorded, files>>

\* time passes between calls until the recorded selections are no longer recent
Tick ==
  /\ pc = "idle"
  /\ _get_recent_ids(RecentHours) # {}
  /\ now' = now + RecentHours
  /\ UNCHANGED <<images, history, pc, call, result, ncalls, recorded, files>>

Next ==
  \/ \E weather \in QueryWeather, time_period \in QueryTime, hour \in Hours,
        avoid_recent \in BOOLEAN :
       Select(weather, time_period, hour, avoid_recent)
  \/ Return
  \/ Tick

Spec == Init /\ [][Next]_vars

(* ----------------- the history store over many recordings -------------- *)
\* The selection-history file as an earlier run (or an edit by hand) left it:
\* n entries of an image since removed from the catalog, none of them recent.
PrefillLengths == {0, HistoryCap - 1, HistoryCap + 1}

Prefill(n) ==
  [i \in 1..n |-> [id |-> "0", timestamp |-> i - n - RecentHours - 1]]

\* Catalogs of one record: the record drawn does not depend on the query
InitHist ==
  /\ images \in {<<Pool[k]>> : k \in 1..Len(Pool)}
  /\ \E n \in PrefillLengths :
       /\ history = [selections |-> Prefill(n)]
       /\ recorded = Prefill(n)
  /\ now = 0
  /\ pc = "idle"
  /\ call = NoCall
  /\ result = NoResult
  /\ ncalls = 0
  /\ files = NoFiles

\* one record operation, _save_history(selected_image), an hour after the last
Record ==
  /\ ncalls < MaxRecords
  /\ \E saved \in {_save_history(<<images[1]>>)} :
       /\ saved.raised = ""
       /\ history' = saved.history
  /\ recorded' = Append(recorded, history_entry(images[1]))
  /\ ncalls' = ncalls + 1
  /\ now' = now + 1
  /\ UNCHANGED <<images, pc, call, result, files>>

\* the hourly run: select(..., save_history=True) records its selection
RecordBySelect ==
  /\ ncalls < MaxRecords
  /\ \E weather \in QueryWeather, time_period \in QueryTime :
       \E out \in {select(weather, time_period, now % 24, TRUE, TRUE, 0)} :
         /\ out.raised = ""
         /\ history' = out.history
         /\ recorded' = Append(recorded, history_entry(out.selected[1]))
  /\ ncalls' = ncalls + 1
  /\ now' = now + 1
  /\ UNCHANGED <<images, pc, call, result, files>>

NextHist == Record \/ RecordBySelect

SpecHist == InitHist /\ [][NextHist]_vars

(* ------------------------------ properties ----------------------------- *)
Range(s) == {s[i] : i \in 1..Len(s)}

\* a call of select has returned (or raised); call holds its arguments and
\* the history and clock it started from
Returned == pc = "returned"
Selected == result.selected[1]
GotRecord == Returned /\ result.selected # << >>

\* eligibility of the data model: no holiday, and a display URL
Eligible(img) == ~is_holiday(img) /\ has_url(img)

\* the matcher's label rule: case-insensitive substring, either direction
Matches(img, weather, time_period) ==
  weather_match(img, weather) /\ time_match(img, time_period)

\* tagged with exactly these labels
Tagged(img, weather, time_period) ==
  /\ Get(img, "weather", << >>) = weather
  /\ Get(img, "time_period", Get(img, "time", << >>)) = time_period

RecentAtCall == recent_ids_of(call.history, call.now, RecentHours)
ExcludedAtCall == IF call.avoid_recent THEN RecentAtCall ELSE {}
PrefsAtCall == Get(ACTIVITY_BY_HOUR, call.hour, << >>)

ExactEligible ==
  {img \in Range(images) : Eligible(img) /\ Matches(img, call.weather, call.time_period)}

\* the label pairs of the weather, time and combined fallback stages
FallbackPairs ==
  LET ws == Range(weather_fallbacks(call.weather))
      ts == Range(time_fallbacks(call.time_period))
  IN  (ws \X {call.time_period}) \cup ({call.weather} \X ts) \cup (ws \X ts)

\* C1: select never returns a record whose holiday field is non-empty, at any
\* cascade stage.
C1_NoHolidayReturned == GotRecord => ~is_holiday(Selected)

\* C2 as stated: when every eligible record matching (w, t) is in the recent
\* set, select(w, t, avoid_recent=True) returns a record matching (w, t).
AllExactRecent ==
  /\ Returned
  /\ call.avoid_recent
  /\ ExactEligible # {}
  /\ \A img \in ExactEligible : img.id \in RecentAtCall

NonRecentUnderFallback ==
  \E img \in Range(images) :
    /\ Eligible(img)
    /\ img.id \notin RecentAtCall
    /\ \E p \in FallbackPairs : Matches(img, p[1], p[2])

\* records matching (w, t) carry a preferred activity of the hour and none of
\* those has a URL: the matcher's activity override then leaves nothing
PreferredLackUrl ==
  LET preferred == {img \in Range(images) :
                      /\ ~is_holiday(img)
                      /\ Matches(img, call.weather, call.time_period)
                      /\ activity_match(img, PrefsAtCall)}
  IN  preferred # {} /\ \A img \in preferred : ~has_url(img)

C3_HistoryBounded == ncalls >= 1 => Len(history.selections) <= HistoryCap

C3_Witness ==
  /\ ncalls >= 1
  /\ Len(recorded) > HistoryCap
  /\ Len(history.selections) = HistoryCap

\* C4: from an empty history, after N record operations the history holds
\* exactly the min(N, 100) entries recorded last, in the order recorded.
StartedEmpty == Len(recorded) = ncalls

C4_Fifo ==
  StartedEmpty =>
    LET kept == IF ncalls < HistoryCap THEN ncalls ELSE HistoryCap
    IN  /\ Len(history.selections) = kept
        /\ \A i \in 1..kept : history.selections[i] = recorded[ncalls - kept + i]

C4_Witness ==
  /\ StartedEmpty
  /\ ncalls = MaxRecords
  /\ Len(history.selections) = HistoryCap
  /\ history.selections[1].timestamp = MaxRecords - HistoryCap

\* C5: on an empty catalog select returns None, raises nothing and leaves the
\* history as it was, whatever the query and the flags.
C5_EmptyCatalogNone ==
  (Returned /\ images = << >>)
    => (result.selected = << >> /\ result.raised = "" /\ history = call.history)

C5_Witness ==
  Returned /\ images = << >> /\ call.save_history /\ call.avoid_recent

\* C6: on a non-empty catalog select returns a record of the catalog, for
\* every query.
C6_AlwaysARecord ==
  (Returned /\ images # << >>)
    => (result.raised = "" /\ result.selected # << >> /\ Selected \in Range(images))

\* no record matches the query labels or any fallback label pair
NoLabelMatch ==
  \A img \in Range(images) :
    /\ ~Matches(img, call.weather, call.time_period)
    /\ \A p \in FallbackPairs : ~Matches(img, p[1], p[2])

C6_Witness == GotRecord /\ NoLabelMatch

\* C7 as stated: every record select returns has a non-blank cloudinary_url.
C7_Original == GotRecord => has_url(Selected)

\* C7, amended: every record select returns has a non-blank cloudinary_url
\* whenever some record of the catalog has one; when none has, select returns
\* a record without one as its last resort.
C7_Amended ==
  GotRecord => (has_url(Selected) <=> \E img \in Range(images) : has_url(img))

C7_Witness ==
  /\ GotRecord
  /\ has_url(Selected)
  /\ \E img \in Range(images) :
       ~has_url(img) /\ ~is_holiday(img) /\ Matches(img, call.weather, call.time_period)

\* C8: when exactly one record of the catalog matches the query (weather,
\* time), select returns that record.
C8_Original ==
  Returned =>
    LET matching == {img \in Range(images) : Matches(img, call.weather, call.time_period)}
    IN  Cardinality(matching) = 1 => (result.selected # << >> /\ Selected \in matching)

\* C9: when a record is tagged with the query weather and time period,
\* select(weather, time, avoid_recent=False, save_history=False) returns a
\* record tagged with them.
C9_Original ==
  (/\ Returned /\ ~call.avoid_recent /\ ~call.save_history
   /\ \E img \in Range(images) : Tagged(img, call.weather, call.time_period))
    => (result.selected # << >> /\ Tagged(Selected, call.weather, call.time_period))

\* the substitutes of the query weather that have an eligible record at the
\* query time, by position in the chain
SubstitutesWithEligible ==
  {k \in 1..Len(weather_fallbacks(call.weather)) :
     \E img \in Range(images) :
       Eligible(img) /\ Matches(img, weather_fallbacks(call.weather)[k], call.time_period)}

\* C10 as stated: when no eligible record matches (w, t), the returned record
\* matches the first substitute of w that has an eligible record at time t.
C10_Original ==
  (Returned /\ ExactEligible = {} /\ SubstitutesWithEligible # {})
    => /\ result.selected # << >>
       /\ Matches(Selected, weather_fallbacks(call.weather)[SetMin(SubstitutesWithEligible)],
                  call.time_period)

\* the substitutes of the query weather for which the matcher, given the
\* call's recency exclusions and activity preferences, finds a candidate
SubstitutesWithCandidates ==
  {k \in 1..Len(weather_fallbacks(call.weather)) :
     _find_matches(weather_fallbacks(call.weather)[k], call.time_period,
                   ExcludedAtCall, PrefsAtCall) # << >>}

\* C10, amended: when no eligible record matches (w, t), the substitutes of w
\* are tried in chain order against t with the call's recency exclusions and
\* activity preferences, and the returned record is an eligible, non-excluded
\* record matching the first substitute for which the matcher finds a
\* candidate, unless avoid_recent is set during the sleeping hours 22-05.
C10_Amended ==
  (/\ Returned /\ ExactEligible = {} /\ SubstitutesWithCandidates # {}
   /\ ~(call.avoid_recent /\ is_sleeping_hour(call.hour)))
    => /\ result.selected # << >>
       /\ Eligible(Selected)
       /\ Selected.id \notin ExcludedAtCall
       /\ Matches(Selected, weather_fallbacks(call.weather)[SetMin(SubstitutesWithCandidates)],
                  call.time_period)

C10_Witness ==
  /\ Returned /\ ExactEligible = {} /\ SubstitutesWithCandidates # {}
  /\ ~(call.avoid_recent /\ is_sleeping_hour(call.hour))
  /\ call.weather = L.Stormy /\ call.time_period = L.Night
  /\ result.selected # << >> /\ Get(Selected, "weather", << >>) = L.Rainy

(* --------------- the cascade over catalogs of fallback records ---------- *)
\* Records for the queries' fallback labels: for Stormy/Night an exact match,
\* the weather substitutes Rainy and Overcast, the time substitutes Evening
\* and Dawn, and the combined pairs Rainy/Dawn and Overcast/Evening
PoolCascade ==
  << [id |-> "11", weather |-> L.Stormy, time_period |-> L.Night, activity |-> L.Work,
      cloudinary_url |-> Url],
     [id |-> "12", weather |-> L.Rainy, time_period |-> L.Night, activity |-> L.Sleeping,
      cloudinary_url |-> Url],
     [id |-> "13", weather |-> L.Overcast, time_period |-> L.Night, activity |-> L.Work,
      cloudinary_url |-> Url],
     [id |-> "14", weather |-> L.Stormy, time_period |-> L.Evening, activity |-> L.Work,
      cloudinary_url |-> Url],
     [id |-> "15", weather |-> L.Stormy, time_period |-> L.Dawn, activity |-> L.Sleeping,
      cloudinary_url |-> Url],
     [id |-> "16", weather |-> L.Rainy, time_period |-> L.Dawn, activity |-> L.Work,
      cloudinary_url |-> Url],
     [id |-> "17", weather |-> L.Overcast, time_period |-> L.Evening, activity |-> L.Work,
      cloudinary_url |-> Url] >>

\* the sub-lists of pool[k..] of at most n records
RECURSIVE SubListsOf(_, _, _)
SubListsOf(pool, k, n) ==
  IF k > Len(pool) THEN {<< >>}
  ELSE SubListsOf(pool, k + 1, n)
         \cup (IF n = 0 THEN {} ELSE {<<pool[k]>> \o s : s \in SubListsOf(pool, k + 1, n - 1)})

InitCascade ==
  /\ images \in SubListsOf(PoolCascade, 1, MaxImages)
  /\ history = [selections |-> << >>]
  /\ now = 0
  /\ pc = "idle"
  /\ call = NoCall
  /\ result = NoResult
  /\ ncalls = 0
  /\ files = NoFiles
  /\ recorded = << >>

SpecCascade == InitCascade /\ [][Next]_vars

\* the substitutes of the query time, by position, for which some eligible
\* record matches the query weather
TimeSubstitutesWithEligible ==
  {k \in 1..Len(time_fallbacks(call.time_period)) :
     \E img \in Range(images) :
       Eligible(img) /\ Matches(img, call.weather, time_fallbacks(call.time_period)[k])}

\* C11 as stated: when no eligible record matches (w, t) and both a weather
\* substitute (w', t) and a time substitute (w, t') have eligible records,
\* the returned record matches a weather substitute at the query time.
C11_Original ==
  (/\ Returned /\ ExactEligible = {}
   /\ SubstitutesWithEligible # {} /\ TimeSubstitutesWithEligible # {})
    => /\ result.selected # << >>
       /\ \E k \in SubstitutesWithEligible :
            Matches(Selected, weather_fallbacks(call.weather)[k], call.time_period)

\* what the matcher finds for a label pair under the call's recency
\* exclusions and activity preferences
PairCandidates(weather, time_period) ==
  Range(_find_matches(weather, time_period, ExcludedAtCall, PrefsAtCall))

WeatherStagePositions ==
  {i \in 1..Len(weather_fallbacks(call.weather)) :
     PairCandidates(weather_fallbacks(call.weather)[i], call.time_period) # {}}

TimeStagePositions ==
  {j \in 1..Len(time_fallbacks(call.time_period)) :
     PairCandidates(call.weather, time_fallbacks(call.time_period)[j]) # {}}

CombinedStagePositions ==
  {p \in (1..Len(weather_fallbacks(call.weather))) \X (1..Len(time_fallbacks(call.time_period))) :
     PairCandidates(weather_fallbacks(call.weather)[p[1]],
                    time_fallbacks(call.time_period)[p[2]]) # {}}

\* the first combined pair, weather substitutes outer, time substitutes inner
FirstCombined ==
  CHOOSE p \in CombinedStagePositions :
    \A q \in CombinedStagePositions : p[1] < q[1] \/ (p[1] = q[1] /\ p[2] <= q[2])

\* the candidates of the first of the four stages that has any
FirstStageCandidates ==
  IF PairCandidates(call.weather, call.time_period) # {}
  THEN PairCandidates(call.weather, call.time_period)
  ELSE IF WeatherStagePositions # {}
  THEN PairCandidates(weather_fallbacks(call.weather)[SetMin(WeatherStagePositions)],
                      call.time_period)
  ELSE IF TimeStagePositions # {}
  THEN PairCandidates(call.weather, time_fallbacks(call.time_period)[SetMin(TimeStagePositions)])
  ELSE IF CombinedStagePositions # {}
  THEN PairCandidates(weather_fallbacks(call.weather)[FirstCombined[1]],
                      time_fallbacks(call.time_period)[FirstCombined[2]])
  ELSE {}

SleepingBranchOpen == call.avoid_recent /\ is_sleeping_hour(call.hour)

\* C11, amended: the stages exact, weather fallback, time fallback, combined
\* (weather substitutes outer, time substitutes inner) are tried in this
\* order, each through the matcher with the call's recency exclusions and
\* activity preferences, and the record returned is one of the candidates of
\* the first stage (and first label pair in it) that has any, unless
\* avoid_recent is set during the sleeping hours 22-05.
C11_Amended ==
  (Returned /\ FirstStageCandidates # {} /\ ~SleepingBranchOpen)
    => (result.selected # << >> /\ Selected \in FirstStageCandidates)

\* the combined stage decided, and a later weather substitute had candidates
\* at an earlier time substitute
C11_Witness ==
  /\ Returned /\ ~SleepingBranchOpen
  /\ PairCandidates(call.weather, call.time_period) = {}
  /\ WeatherStagePositions = {} /\ TimeStagePositions = {}
  /\ \E p \in CombinedStagePositions : p[1] > FirstCombined[1] /\ p[2] < FirstCombined[2]
  /\ result.selected # << >> /\ Selected \in FirstStageCandidates

\* some eligible record matching (w, t) is outside the recent set
ExactOutsideRecent ==
  \E img \in ExactEligible : img.id \notin RecentAtCall

\* C12 as stated: whenever an eligible record matching (w, t) is outside the
\* recent set, select(w, t, avoid_recent=True) returns a record outside the
\* recent set, at every hour.
C12_Original ==
  (Returned /\ call.avoid_recent /\ ExactOutsideRecent)
    => (result.selected # << >> /\ Selected.id \notin RecentAtCall)

\* a candidate of the first non-empty stage names a preferred activity of the
\* hour in its activity field
StageHasPreferredActivity ==
  \E img \in FirstStageCandidates : \E k \in 1..Len(PrefsAtCall) :
    in_(lower(PrefsAtCall[k]), lower(Get(img, "activity", << >>)))

\* C12, amended: whenever an eligible record matching (w, t) is outside the
\* recent set, select(w, t, avoid_recent=True) returns a record outside the
\* recent set, except during the sleeping hours 22-05 when no candidate of
\* the cascade names a preferred activity of the hour: the sleeping-hour
\* branch then matches again without recency exclusions.
C12_Amended ==
  (/\ Returned /\ call.avoid_recent /\ ExactOutsideRecent
   /\ ~(is_sleeping_hour(call.hour) /\ ~StageHasPreferredActivity))
    => (result.selected # << >> /\ Selected.id \notin RecentAtCall)

C12_Witness ==
  /\ Returned /\ call.avoid_recent /\ ExactOutsideRecent
  /\ ~(is_sleeping_hour(call.hour) /\ ~StageHasPreferredActivity)
  /\ \E img \in ExactEligible : img.id \in RecentAtCall
  /\ result.selected # << >> /\ Selected.id \notin RecentAtCall

(* ------------------- the query label in other spellings ---------------- *)
\* str.upper(), the inverse of the table of str.lower()
upper(s) ==
  [i \in 1..Len(s) |->
     IF \E c \in DOMAIN LowerOf : LowerOf[c] = s[i]
     THEN CHOOSE c \in DOMAIN LowerOf : LowerOf[c] = s[i]
     ELSE s[i]]

\* a label as the tests spell it: "Sunny", "sunny", "SUNNY"
Spellings(label) == {label, lower(label), upper(label)}

\* one call of ImageSelector.select with the weather label in some spelling;
\* call keeps the candidates the draw was made from, and those the label as
\* the tables spell it gives from the same state
SelectSpelled(weather, time_period, hour, avoid_recent) ==
  /\ pc = "idle"
  /\ ncalls < MaxCalls
  /\ \E spelled \in Spellings(weather) :
       \E candidates \in {final_candidates(spelled, time_period, hour, avoid_recent)} :
         \E save_history \in BOOLEAN, r \in Draws :
           \E out \in {select_from(candidates, save_history, r)} :
             /\ result' = [selected |-> out.selected, raised |-> out.raised]
             /\ history' = out.history
             /\ call' = [op |-> "select", weather |-> spelled, time_period |-> time_period,
                         hour |-> hour, avoid_recent |-> avoid_recent,
                         save_history |-> save_history,
                         history |-> history, now |-> now,
                         candidates |-> candidates,
                         titled |-> final_candidates(weather, time_period, hour, avoid_recent)]
  /\ ncalls' = ncalls + 1
  /\ pc' = "returned"
  /\ UNCHANGED <<images, now, recorded, files>>

NextSpelled ==
  \/ \E weather \in QueryWeather, time_period \in QueryTime, hour \in Hours,
        avoid_recent \in BOOLEAN :
       SelectSpelled(weather, time_period, hour, avoid_recent)
  \/ Return
  \/ Tick

SpecSpelled == Init /\ [][NextSpelled]_vars

\* C13: select called with the weather label in upper, lower or title case
\* draws from the same final candidate set, also when the fallback chain of
\* the label is needed.
C13_SameCandidatesAnyCase ==
  Returned => Range(call.candidates) = Range(call.titled)

(* ------------------ construction from the files on disk ---------------- *)
\* The database file: absent, not JSON, a JSON scalar, an object without
\* "images", a bare list of records, or an object holding the list
LoadCatalogs == SubListsOf(Pool, 1, 1)

DatabaseFiles ==
  {[exists |-> FALSE], [exists |-> TRUE, json |-> "malformed"],
   [exists |-> TRUE, json |-> "scalar"],
   [exists |-> TRUE, json |-> "object", data |-> [version |-> 1]]}
    \cup {[exists |-> TRUE, json |-> "list", data |-> c] : c \in LoadCatalogs}
    \cup {[exists |-> TRUE, json |-> "object", data |-> [images |-> c]] : c \in LoadCatalogs}

\* The history file: absent, not JSON, an object without "selections", or an
\* object with selections, some of them lacking id or timestamp or with a
\* timestamp that is no ISO date
HistoryFiles ==
  {[exists |-> FALSE], [exists |-> TRUE, json |-> "malformed"],
   [exists |-> TRUE, json |-> "object", data |-> [version |-> 1]],
   [exists |-> TRUE, json |-> "object", data |-> [selections |-> << >>]],
   [exists |-> TRUE, json |-> "object",
    data |-> [selections |-> << [id |-> "1", timestamp |-> 0] >>]],
   [exists |-> TRUE, json |-> "object",
    data |-> [selections |-> << [timestamp |-> 0], [id |-> "1"],
                                [id |-> "1", timestamp |-> 0, timestamp_unparsable |-> TRUE] >>]]}

\* ImageSelector._load_database of select_image_new.py: json.load and
\* data.get inside try/except
_load_database_new(file) ==
  IF ~file.exists \/ file.json \in {"malformed", "scalar"}
  THEN [images |-> << >>, raised |-> ""]
  ELSE IF file.json = "list" THEN [images |-> file.data, raised |-> ""]
  ELSE [images |-> Get(file.data, "images", << >>), raised |-> ""]

\* ImageSelector._load_database: the records, or the exception json.load or
\* data.get raises
_load_database(file) ==
  IF ~file.exists THEN [images |-> << >>, raised |-> ""]
  ELSE IF file.json = "malformed" THEN [images |-> << >>, raised |-> "JSONDecodeError"]
  ELSE IF file.json = "list" THEN [images |-> file.data, raised |-> ""]
  ELSE IF file.json = "object" THEN [images |-> Get(file.data, "images", << >>), raised |-> ""]
  ELSE [images |-> << >>, raised |-> "AttributeError"]

\* ImageSelector._load_history
_load_history(file) ==
  IF ~file.exists \/ file.json = "malformed" THEN [selections |-> << >>] ELSE file.data

\* before ImageSelector(database_path): the two files as they are on disk
InitLoad ==
  /\ \E database \in DatabaseFiles, history_file \in HistoryFiles :
       call = [op |-> "load", database |-> database, history_file |-> history_file]
  /\ images = << >>
  /\ history = [selections |-> << >>]
  /\ now = 0
  /\ pc = "loading"
  /\ result = NoResult
  /\ ncalls = 0
  /\ files = NoFiles
  /\ recorded = << >>

\* ImageSelector.__init__: the database, then the history
Construct ==
  /\ pc = "loading"
  /\ \E loaded \in {_load_database(call.database)} :
       /\ images' = loaded.images
       /\ result' = [selected |-> << >>, raised |-> loaded.raised]
       /\ history' = IF loaded.raised = "" THEN _load_history(call.history_file) ELSE history
       /\ pc' = IF loaded.raised = "" THEN "constructed" ELSE "crashed"
  /\ UNCHANGED <<now, call, ncalls, recorded, files>>

\* main goes on to select
Proceed ==
  /\ pc = "constructed"
  /\ pc' = "idle"
  /\ call' = NoCall
  /\ UNCHANGED <<images, history, now, result, ncalls, recorded, files>>

NextLoad == Construct \/ Proceed \/ Next

SpecLoad == InitLoad /\ [][NextLoad]_vars

\* C14: loading the catalog never raises; a missing file and a file with
\* malformed JSON give an empty catalog, a bare list or an object with an
\* images key gives its records.
C14_LoadNeverRaises ==
  pc \in {"constructed", "crashed"} =>
    /\ result.raised = ""
    /\ (~call.database.exists \/ call.database.json = "malformed") => images = << >>
    /\ (call.database.exists /\ call.database.json = "list") => images = call.database.data
    /\ (/\ call.database.exists /\ call.database.json = "object"
        /\ "images" \in DOMAIN call.database.data)
         => images = call.database.data.images

\* the entry the history ends with records the record returned
LastEntryIsSelection ==
  /\ "selections" \in DOMAIN history
  /\ history.selections # << >>
  /\ history.selections[Len(history.selections)] = [id |-> Selected.id, timestamp |-> call.now]

\* C15: whatever the history file held (nothing, no JSON, no selections
\* list, entries without id or parsable timestamp), select with
\* avoid_recent=True and save_history=True on a non-empty catalog completes,
\* returns a record and leaves a history ending with the new selection.
C15_CorruptHistoryNeverFatal ==
  (Returned /\ call.avoid_recent /\ call.save_history /\ images # << >>)
    => (result.raised = "" /\ result.selected # << >> /\ LastEntryIsSelection)

\* the call found nothing with the recent set excluded and entered select
\* again with avoid_recent=False (the history read is the one of the call)
RecencyRelaxed ==
  /\ call.avoid_recent
  /\ history = call.history /\ now = call.now
  /\ cascade(call.weather, call.time_period, call.hour, TRUE, RecentAtCall, PrefsAtCall) = << >>

\* C16: with save_history=False select leaves the history (self.history and
\* the file it is dumped to) as it was, whatever the cascade did, recency
\* relaxation included.
C16_DryRunKeepsHistory ==
  (Returned /\ ~call.save_history) => history = call.history

C16_Witness ==
  /\ Returned /\ ~call.save_history
  /\ RecentAtCall # {}
  /\ RecencyRelaxed
  /\ result.selected # << >> /\ Selected.id \in RecentAtCall

(* --------------------------- the hourly updater ------------------------ *)
\* the weather mapped from the API's "main" group instead of the code
normalize_weather_main(weather_id) ==
  IF weather_id = 800 THEN <<"C", "l", "e", "a", "r">> ELSE <<"C", "l", "o", "u", "d", "s">>

\* fetch_weather.normalize_weather: the category of an OpenWeatherMap code
normalize_weather(weather_id) ==
  IF weather_id \in (200..232) \cup (505..531) THEN L.Stormy
  ELSE IF weather_id \in (300..321) \cup (500..504) THEN L.Rainy
  ELSE IF weather_id \in 600..622 THEN L.Snowy
  ELSE IF weather_id \in 700..749 THEN L.Foggy
  ELSE IF weather_id \in 750..781 THEN L.Windy
  ELSE IF weather_id = 800 THEN L.Sunny
  ELSE IF weather_id = 801 THEN L.PartlyCloudy
  ELSE IF weather_id = 802 THEN L.Cloudy
  ELSE IF weather_id \in {803, 804} THEN L.Overcast
  ELSE L.Sunny

\* fetch_weather.get_time_period
get_time_period(hour) ==
  IF hour >= 23 \/ hour < 5 THEN L.LateNight
  ELSE IF hour < 6 THEN L.Dawn
  ELSE IF hour < 8 THEN L.EarlyMorning
  ELSE IF hour < 11 THEN L.Morning
  ELSE IF hour < 14 THEN L.Midday
  ELSE IF hour < 17 THEN L.Afternoon
  ELSE IF hour < 18 THEN L.GoldenHour
  ELSE IF hour < 20 THEN L.Evening
  ELSE L.Night

\* the weather dict, with the fields the updater and the selector read
weather_dict(condition, current_hour, source) ==
  [condition |-> condition, time_period |-> get_time_period(current_hour),
   current_hour |-> current_hour, source |-> source]

\* WeatherClient._get_fallback
_get_fallback(current_hour) == weather_dict(L.Sunny, current_hour, "fallback")

condition_map ==
  (lower(L.Sunny) :> L.Sunny) @@ (lower(L.Cloudy) :> L.Cloudy) @@ (lower(L.Rainy) :> L.Rainy)
  @@ (lower(L.Stormy) :> L.Stormy) @@ (lower(L.Snowy) :> L.Snowy) @@ (lower(L.Foggy) :> L.Foggy)

\* fetch_weather.get_mock_weather
get_mock_weather(condition, current_hour) ==
  weather_dict(Get(condition_map, lower(condition), L.Sunny), current_hour, "mock")

\* WeatherClient.fetch_with_fallback: api is <<weather_id>> when the API
\* answers and << >> when fetch raises; the weather returned and the cache
\* file afterwards
fetch_with_fallback(api, current_hour, cache) ==
  IF api # << >>
  THEN [weather |-> weather_dict(normalize_weather(api[1]), current_hour, "OpenWeatherMap"),
        cache |-> <<weather_dict(normalize_weather(api[1]), current_hour, "OpenWeatherMap")>>]
  ELSE IF cache # << >>
  THEN [weather |-> [cache[1] EXCEPT !.source = "cache"], cache |-> cache]
  ELSE [weather |-> _get_fallback(current_hour), cache |-> cache]

\* AliceUpdater._fetch_weather: the weather and the files afterwards
weather_saved(fetched, fs) ==
  [weather |-> fetched.weather,
   files |-> [fs EXCEPT !.cache = fetched.cache, !.weather = <<fetched.weather>>]]

_fetch_weather(mock, api, current_hour, fs) ==
  IF mock # << >>
  THEN [weather |-> get_mock_weather(mock, current_hour), files |-> fs]
  ELSE weather_saved(fetch_with_fallback(api, current_hour, fs.cache), fs)

\* bool(selected), for the Optional record select returns
truthy(selected) == selected # << >> /\ DOMAIN selected[1] # {}

\* AliceUpdater._build_control
_build_control(weather, image) ==
  [currentImage |-> [id |-> Get(image, "id", "None"),
                     url |-> OrElse(Get(image, "cloudinary_url", << >>),
                                    Get(image, "url", << >>))],
   weather |-> weather.condition, period |-> weather.time_period,
   hour |-> weather.current_hour]

UpdateHistoryCap == 168

\* AliceUpdater._save_history: the update-history file afterwards
update_history_saved(weather, image, file) ==
  << LastN(Append(IF file = << >> THEN << >> ELSE file[1],
                  [timestamp |-> now, weather |-> weather.condition,
                   time_period |-> weather.time_period,
                   image_id |-> Get(image, "id", "None")]),
           UpdateHistoryCap) >>

\* AliceUpdater.run from "if not selected" on (lines 77-100): what run
\* returns, the exception that leaves it and the files afterwards
run_after_select(dry_run, weather, out, fs) ==
  IF out.raised # "" THEN [success |-> FALSE, raised |-> out.raised, files |-> fs]
  ELSE IF ~truthy(out.selected) THEN [success |-> FALSE, raised |-> "", files |-> fs]
  ELSE IF dry_run THEN [success |-> TRUE, raised |-> "", files |-> fs]
  ELSE [success |-> TRUE, raised |-> "",
        files |-> [fs EXCEPT !.control = <<_build_control(weather, out.selected[1])>>,
                             !.update_history =
                               update_history_saved(weather, out.selected[1],
                                                    fs.update_history)]]

\* the exit status of the process: sys.exit(0 if success else 1) of
\* update_alice.main, and 1 with a traceback for an uncaught exception
exit_status(done) == IF done.raised # "" THEN 1 ELSE IF done.success THEN 0 ELSE 1

\* the clock of a run: the UTC hour and the offset of the local time zone
UtcHours == {1, 10}
TzOffsets == {0, 2}
MockArgs == {<< >>, lower(L.Stormy), L.Windy}
ApiAnswers == {<< >>, <<211>>, <<900>>}

\* the data directory before a run: the catalog, the selection history (one
\* left without its selections list by an edit) and the weather cache
InitUpdate ==
  /\ images \in LoadCatalogs
  /\ history \in {[selections |-> << >>], [version |-> 1]}
  /\ \E cache \in {<< >>, <<weather_dict(L.Rainy, 21, "OpenWeatherMap")>>} :
       files = [NoFiles EXCEPT !.cache = cache]
  /\ now = 0
  /\ pc = "idle"
  /\ call = NoCall
  /\ result = NoResult
  /\ ncalls = 0
  /\ recorded = << >>

\* python update_alice.py [--dry-run] [--mock MOCK]: main and AliceUpdater.run
Run(dry_run, mock_weather, api, utc_hour, tz_offset) ==
  /\ pc = "idle"
  /\ ncalls < MaxCalls
  /\ \E fetched \in {_fetch_weather(mock_weather, api, (utc_hour + tz_offset) % 24, files)},
        r \in Draws :
       \E out \in {select(fetched.weather.condition, fetched.weather.time_period,
                          (utc_hour + 2) % 24, TRUE, ~dry_run, r)} :
         \E done \in {run_after_select(dry_run, fetched.weather, out, fetched.files)} :
           /\ result' = [selected |-> out.selected, raised |-> done.raised,
                         status |-> exit_status(done)]
           /\ history' = out.history
           /\ files' = done.files
           /\ call' = [op |-> "run", dry_run |-> dry_run, mock_weather |-> mock_weather,
                       api |-> api, weather |-> fetched.weather,
                       history |-> history, files |-> files, now |-> now]
  /\ ncalls' = ncalls + 1
  /\ pc' = "exited"
  /\ UNCHANGED <<images, now, recorded>>

\* select_image.main, lines 524-538: the query, from the arguments, the
\* weather file or the defaults
main_query(weather_arg, time_arg, weather_file) ==
  IF weather_arg # << >> /\ time_arg # << >>
  THEN [weather |-> weather_arg, time_period |-> time_arg]
  ELSE IF weather_file # << >>
  THEN [weather |-> OrElse(weather_arg, Get(weather_file[1], "condition", L.Sunny)),
        time_period |-> OrElse(time_arg, Get(weather_file[1], "time_period", L.Afternoon))]
  ELSE [weather |-> OrElse(weather_arg, L.Sunny),
        time_period |-> OrElse(time_arg, L.Afternoon)]

\* select_image.main, lines 549-575: the selected-image file and the status
main_after_select(dry_run, out, fs) ==
  IF out.raised # "" THEN [status |-> 1, files |-> fs]
  ELSE IF ~truthy(out.selected) THEN [status |-> 1, files |-> fs]
  ELSE [status |-> 0,
        files |-> IF dry_run THEN fs ELSE [fs EXCEPT !.selected_image = out.selected]]

\* python select_image.py [--weather W] [--time T] [--dry-run]
Main(weather_arg, time_arg, dry_run, utc_hour) ==
  /\ pc = "idle"
  /\ ncalls < MaxCalls
  /\ \E query \in {main_query(weather_arg, time_arg, files.weather)}, r \in Draws :
       \E out \in {select(query.weather, query.time_period, (utc_hour + 2) % 24,
                          TRUE, ~dry_run, r)} :
         \E done \in {main_after_select(dry_run, out, files)} :
           /\ result' = [selected |-> out.selected, raised |-> out.raised,
                         status |-> done.status]
           /\ history' = out.history
           /\ files' = done.files
           /\ call' = [op |-> "main", dry_run |-> dry_run, weather |-> query,
                       history |-> history, files |-> files, now |-> now]
  /\ ncalls' = ncalls + 1
  /\ pc' = "exited"
  /\ UNCHANGED <<images, now, recorded>>

\* the process is gone; the next one starts from the files it left
Exit ==
  /\ pc = "exited"
  /\ pc' = "idle"
  /\ call' = NoCall
  /\ result' = NoResult
  /\ UNCHANGED <<images, history, now, ncalls, recorded, files>>

NextUpdate ==
  \/ \E dry_run \in BOOLEAN, mock_weather \in MockArgs, api \in ApiAnswers,
        utc_hour \in UtcHours, tz_offset \in TzOffsets :
       Run(dry_run, mock_weather, api, utc_hour, tz_offset)
  \/ \E weather_arg \in {<< >>, L.Stormy}, time_arg \in {<< >>, L.Night},
        dry_run \in BOOLEAN, utc_hour \in UtcHours :
       Main(weather_arg, time_arg, dry_run, utc_hour)
  \/ Exit

SpecUpdate == InitUpdate /\ [][NextUpdate]_vars

Exited == pc = "exited"

\* C17: AliceUpdater.run with dry_run=True writes no file: the weather file,
\* the weather cache, the display-control file, the update history and the
\* selection history are after the run what they were before it, whether the
\* weather came from the API, the cache, the defaults or a mock.
C17_DryRunWritesNothing ==
  (Exited /\ call.op = "run" /\ call.dry_run)
    => (files = call.files /\ history = call.history)

\* select returned None: it raised nothing and selected nothing
SelectReturnedNone == result.raised = "" /\ result.selected = << >>

\* C18: at the command line the exit status is 1 exactly when select
\* returned None (no record could be selected) and 0 when a record was
\* selected, whichever stage of the cascade supplied it.
C18_ExitStatusTellsSelection ==
  Exited => /\ result.status \in {0, 1}
            /\ result.status = 1 <=> SelectReturnedNone
            /\ result.selected # << >> => result.status = 0

(* -------------------------- the fallback tables ------------------------ *)
\* WEATHER_FALLBACKS and TIME_FALLBACKS of select_image_new.py
WEATHER_FALLBACKS_new ==
  (L.Sunny :> << L.Cloudy, L.Overcast >>)
  @@ (L.Cloudy :> << L.Overcast, L.Sunny, L.Foggy >>)
  @@ (L.Overcast :> << L.Cloudy, L.Foggy, L.Rainy >>)
  @@ (L.Rainy :> << L.Stormy, L.Overcast, L.Cloudy >>)
  @@ (L.Stormy :> << L.Rainy, L.Overcast >>)
  @@ (L.Snowy :> << L.Cloudy, L.Overcast, L.Foggy >>)
  @@ (L.Foggy :> << L.Cloudy, L.Overcast >>)

TIME_FALLBACKS_new ==
  (L.Dawn :> << L.Morning, L.Evening >>)
  @@ (L.Morning :> << L.Dawn, L.Midday >>)
  @@ (L.Midday :> << L.Morning, L.Afternoon >>)
  @@ (L.Afternoon :> << L.Midday, L.Evening >>)
  @@ (L.Evening :> << L.Afternoon, L.Night >>)
  @@ (L.Night :> << L.Evening, L.Dawn >>)

\* the labels the tests expect as keys
ExpectedWeathers ==
  {L.Sunny, L.Cloudy, L.Rainy, L.Stormy, L.Snowy, L.Foggy, L.Overcast}
ExpectedTimes == {L.Dawn, L.Morning, L.Afternoon, L.Evening, L.Night}

\* every key of the table has a non-empty list that does not hold the key
NoEmptyOrSelfFallback(table) ==
  \A label \in DOMAIN table : table[label] # << >> /\ label \notin Range(table[label])

\* C19: for every key of the weather table the chain weather_fallbacks
\* gives, and for every key of the time table the chain time_fallbacks
\* gives, is non-empty and does not hold the key; Sunny, Cloudy, Rainy,
\* Stormy, Snowy, Foggy, Overcast and Dawn, Morning, Afternoon, Evening,
\* Night are keys; the same holds of the tables of select_image_new.py, and
\* of the chains of every call of select that asks for a key.
C19_FallbackTablesWellFormed ==
  /\ \A w \in DOMAIN WEATHER_FALLBACKS :
       weather_fallbacks(w) # << >> /\ w \notin Range(weather_fallbacks(w))
  /\ \A t \in DOMAIN TIME_FALLBACKS :
       time_fallbacks(t) # << >> /\ t \notin Range(time_fallbacks(t))
  /\ ExpectedWeathers \subseteq DOMAIN WEATHER_FALLBACKS
  /\ ExpectedTimes \subseteq DOMAIN TIME_FALLBACKS
  /\ NoEmptyOrSelfFallback(WEATHER_FALLBACKS_new)
  /\ NoEmptyOrSelfFallback(TIME_FALLBACKS_new)
  /\ ExpectedWeathers \subseteq DOMAIN WEATHER_FALLBACKS_new
  /\ ExpectedTimes \subseteq DOMAIN TIME_FALLBACKS_new
  /\ (Returned /\ call.weather \in DOMAIN WEATHER_FALLBACKS)
       => (/\ weather_fallbacks(call.weather) # << >>
           /\ call.weather \notin Range(weather_fallbacks(call.weather)))
  /\ (Returned /\ call.time_period \in DOMAIN TIME_FALLBACKS)
       => (/\ time_fallbacks(call.time_period) # << >>
           /\ call.time_period \notin Range(time_fallbacks(call.time_period)))

\* a call asked for a key of both tables and was served from the chain of
\* the weather: the record returned carries a fallback weather
C19_Witness ==
  /\ Returned /\ result.selected # << >>
  /\ call.weather \in DOMAIN WEATHER_FALLBACKS
  /\ call.time_period \in DOMAIN TIME_FALLBACKS
  /\ "weather" \in DOMAIN Selected
  /\ Selected.weather \in Range(weather_fallbacks(call.weather))
  /\ Selected.weather # call.weather

(* ------------------ the selector of select_image_new.py ---------------- *)
Digit == <<"0", "1", "2", "3", "4", "5", "6", "7", "8", "9">>

\* str(n), for n >= 0
RECURSIVE decimal(_)
decimal(n) == IF n < 10 THEN <<Digit[n + 1]>> ELSE decimal(n \div 10) \o <<Digit[(n % 10) + 1]>>

\* f"{n:03d}"
format_03d(n) ==
  IF n < 10 THEN <<"0", "0">> \o decimal(n)
  ELSE IF n < 100 THEN <<"0">> \o decimal(n)
  ELSE decimal(n)

\* s.replace(a, b), for one-character a and b
replace(s, a, b) == [i \in 1..Len(s) |-> IF s[i] = a THEN b ELSE s[i]]

\* Path(path).stem: the last component without its last suffix
last_component(path) ==
  LET slashes == {i \in 1..Len(path) : path[i] = "/"}
  IN  IF slashes = {} THEN path ELSE SubSeq(path, SetMax(slashes) + 1, Len(path))

stem(path) ==
  LET name == last_component(path)
      dots == {i \in 2..Len(name) : name[i] = "."}
  IN  IF dots = {} THEN name ELSE SubSeq(name, 1, SetMax(dots) - 1)

Photo == <<"g", "/", "a", ".", "p", "n", "g">>
AtoB == <<"A", " ", "B", "-", "C">>
Url2 == <<"y">>

\* gallery records of select_image_new.py: name, time_of_day, verified and
\* the path or row number the file name is made from
PoolNew ==
  << [id |-> <<"2", "1">>, name |-> L.Reading, weather |-> L.Sunny, time_of_day |-> L.Morning,
      verified |-> TRUE, path |-> Photo],
     [id |-> <<"2", "2">>, name |-> AtoB, weather |-> L.Rainy, time_of_day |-> L.Night,
      verified |-> FALSE, row_number |-> 7],
     [id |-> <<"2", "3">>, name |-> L.Gaming, weather |-> L.Stormy, time_of_day |-> L.Night,
      verified |-> TRUE, path |-> Photo, cloudinary_url |-> Url],
     [id |-> <<"2", "4">>, weather |-> L.Cloudy, time_of_day |-> L.Evening],
     [id |-> <<"2", "5">>, name |-> L.Movie, weather |-> L.Stormy, time_of_day |-> L.Night,
      verified |-> TRUE, row_number |-> 0] >>

\* data/cloudinary-urls.json: file name to URL
CloudinaryUrls ==
  (<<"a">> :> Url2) @@ (<<"0", "0", "7", "_", "A", "_", "B", "_", "C">> :> Url2)

\* ImageSelector._load_cloudinary_urls
_load_cloudinary_urls(file) == IF file = << >> THEN << >> ELSE file[1]

\* ImageSelector._get_recent_ids of select_image_new.py: ids and names
_get_recent_ids_new(hours) ==
  LET sels == Get(history, "selections", << >>)
      recent == {j \in 1..Len(sels) :
                   "timestamp" \in DOMAIN sels[j] /\ sels[j].timestamp > now - hours}
  IN  {Get(sels[j], "id", << >>) : j \in recent} \cup {Get(sels[j], "name", << >>) : j \in recent}

\* img.get(a) or img.get(b)
get_or(img, a, b) == OrElse(Get(img, a, << >>), Get(img, b, << >>))

\* ImageSelector._find_matches of select_image_new.py, as positions in
\* self.images
matches_new(i, weather, time_of_day, exclude_ids) ==
  /\ strip(Get(images[i], "weather", << >>)) # << >>
  /\ lower(strip(Get(images[i], "weather", << >>))) = lower(weather)
  /\ strip(Get(images[i], "time_of_day", << >>)) # << >>
  /\ lower(strip(Get(images[i], "time_of_day", << >>))) = lower(time_of_day)
  /\ get_or(images[i], "id", "notion_id") \notin exclude_ids
  /\ get_or(images[i], "name", "title") \notin exclude_ids

Positions == [i \in 1..Len(images) |-> i]

_find_matches_new(weather, time_of_day, exclude_ids) ==
  LET Match(i) == matches_new(i, weather, time_of_day, exclude_ids)
      Verified(i) == Get(images[i], "verified", FALSE)
  IN  OrElse(SelectSeq(SelectSeq(Positions, Match), Verified), SelectSeq(Positions, Match))

\* select, lines 164-196: the pairs asked for, in the order they are tried
RECURSIVE pairs_of(_, _, _, _)
pairs_of(ws, ts, k, j) ==
  IF k > Len(ws) THEN << >>
  ELSE IF j > Len(ts) THEN pairs_of(ws, ts, k + 1, 1)
  ELSE <<[weather |-> ws[k], time_of_day |-> ts[j]]>> \o pairs_of(ws, ts, k, j + 1)

stage_pairs_new(weather, time_of_day) ==
  pairs_of(<<weather>>, <<time_of_day>>, 1, 1)
    \o pairs_of(Get(WEATHER_FALLBACKS_new, weather, << >>), <<time_of_day>>, 1, 1)
    \o pairs_of(<<weather>>, Get(TIME_FALLBACKS_new, time_of_day, << >>), 1, 1)
    \o pairs_of(Get(WEATHER_FALLBACKS_new, weather, << >>),
                Get(TIME_FALLBACKS_new, time_of_day, << >>), 1, 1)

\* the candidates of the first pair that has any
RECURSIVE first_match_new(_, _, _)
first_match_new(pairs, k, exclude_ids) ==
  IF k > Len(pairs) THEN << >>
  ELSE OrElse(_find_matches_new(pairs[k].weather, pairs[k].time_of_day, exclude_ids),
              first_match_new(pairs, k + 1, exclude_ids))

\* select, lines 203-209: any verified image, then any image
ultimate_fallback_new ==
  LET Verified(i) == Get(images[i], "verified", FALSE)
  IN  OrElse(SelectSeq(Positions, Verified), Positions)

\* select, lines 158-209: recency relaxed by the call of itself at line 201
candidates_new(weather, time_of_day, avoid_recent) ==
  LET pairs == stage_pairs_new(weather, time_of_day)
      first == first_match_new(pairs, 1, IF avoid_recent THEN _get_recent_ids_new(RecentHours)
                                         ELSE {})
  IN  IF first = << >> /\ avoid_recent
      THEN OrElse(first_match_new(pairs, 1, {}), ultimate_fallback_new)
      ELSE OrElse(first, ultimate_fallback_new)

\* select, lines 219-227: the file name, from the path or the name and row
filename_of(selected) ==
  IF Get(selected, "path", << >>) # << >> THEN stem(selected.path)
  ELSE IF Get(selected, "name", << >>) # << >> /\ Get(selected, "row_number", 0) # 0
  THEN format_03d(selected.row_number) \o <<"_">>
         \o replace(replace(selected.name, " ", "_"), "-", "_")
  ELSE << >>

\* select, lines 230-231: selected["cloudinary_url"] = self.cloudinary_urls[filename]
enriched(selected, cloudinary_urls) ==
  IF filename_of(selected) # << >> /\ filename_of(selected) \in DOMAIN cloudinary_urls
  THEN [k \in DOMAIN selected \cup {"cloudinary_url"} |->
          IF k = "cloudinary_url" THEN cloudinary_urls[filename_of(selected)] ELSE selected[k]]
  ELSE selected

\* ImageSelector._save_history of select_image_new.py
_save_history_new(selected_image) ==
  IF "selections" \notin DOMAIN history
  THEN [raised |-> "KeyError", history |-> history]
  ELSE [raised |-> "",
        history |-> [history EXCEPT !.selections =
                       LastN(Append(@, [id |-> get_or(selected_image, "id", "notion_id"),
                                        name |-> get_or(selected_image, "name", "title"),
                                        timestamp |-> now]),
                             HistoryCap)]]

\* select, lines 215-239: selected is the dict held by self.images, so the
\* URL is set on the catalog record
chosen_new(i, cloudinary_urls, save_history) ==
  LET selected == enriched(images[i], cloudinary_urls)
      saved == IF save_history THEN _save_history_new(selected)
               ELSE [raised |-> "", history |-> history]
  IN  [selected |-> IF saved.raised = "" THEN <<selected>> ELSE << >>,
       raised |-> saved.raised, history |-> saved.history,
       images |-> [images EXCEPT ![i] = selected]]

\* ImageSelector.select of select_image_new.py
select_new(weather, time_of_day, avoid_recent, save_history, r) ==
  IF images = << >>
  THEN [selected |-> << >>, raised |-> "", history |-> history, images |-> images]
  ELSE LET candidates == candidates_new(weather, time_of_day, avoid_recent)
       IN  chosen_new(candidates[(r % Len(candidates)) + 1],
                      _load_cloudinary_urls(files.cloudinary_urls), save_history)

InitNew ==
  /\ images \in SubListsOf(PoolNew, 1, MaxImages)
  /\ history = [selections |-> << >>]
  /\ files \in {NoFiles, [NoFiles EXCEPT !.cloudinary_urls = <<CloudinaryUrls>>]}
  /\ now = 0
  /\ pc = "idle"
  /\ call = NoCall
  /\ result = NoResult
  /\ ncalls = 0
  /\ recorded = << >>

\* one call of ImageSelector.select of select_image_new.py
SelectNew(weather, time_of_day, avoid_recent, save_history) ==
  /\ pc = "idle"
  /\ ncalls < MaxCalls
  /\ \E r \in Draws :
       \E out \in {select_new(weather, time_of_day, avoid_recent, save_history, r)} :
         /\ result' = [selected |-> out.selected, raised |-> out.raised]
         /\ history' = out.history
         /\ images' = out.images
  /\ call' = [op |-> "select_new", weather |-> weather, time_period |-> time_of_day,
              avoid_recent |-> avoid_recent, save_history |-> save_history,
              images |-> images, history |-> history, now |-> now]
  /\ ncalls' = ncalls + 1
  /\ pc' = "returned"
  /\ UNCHANGED <<now, recorded, files>>

NextNew ==
  \/ \E weather \in QueryWeather, time_of_day \in QueryTime,
        avoid_recent \in BOOLEAN, save_history \in BOOLEAN :
       SelectNew(weather, time_of_day, avoid_recent, save_history)
  \/ Return
  \/ Tick

SpecNew == InitNew /\ [][NextNew]_vars

\* C20: the catalog is read-only: no step of the engine, select at any
\* cascade stage included, adds, removes or modifies a record or a field of
\* a record.
C20_CatalogReadOnly == [][images' = images]_vars

(* --------------------- select, one loop turn at a time ----------------- *)
\* select, lines 188-215: the label pairs _find_matches is asked for, in the
\* order the four stages ask (exact, weather chain, time chain, combined)
probe_pairs(weather, time_period) ==
  pairs_of(<<weather>>, <<time_period>>, 1, 1)
    \o pairs_of(weather_fallbacks(weather), <<time_period>>, 1, 1)
    \o pairs_of(<<weather>>, time_fallbacks(time_period), 1, 1)
    \o pairs_of(weather_fallbacks(weather), time_fallbacks(time_period), 1, 1)

\* entries of select one call may stack up before the model stops counting
MaxEntries == 4

\* the frame of a call of select on entry: nothing probed, no candidates
frame(weather, time_period, hour, avoid_recent, save_history, entries, steps) ==
  [op |-> "select", weather |-> weather, time_period |-> time_period, hour |-> hour,
   avoid_recent |-> avoid_recent, save_history |-> save_history,
   history |-> history, now |-> now,
   entries |-> entries, steps |-> steps, probed |-> 0, candidates |-> << >>]

\* select calling itself with the recency flag left as it was
reentered_still_avoiding(f) ==
  frame(f.weather, f.time_period, f.hour, f.avoid_recent, f.save_history,
        f.entries + 1, f.steps + 1)

\* select, line 270: self.select(weather, time_period, hour=hour,
\* avoid_recent=False, save_history=save_history)
reentered(f) ==
  frame(f.weather, f.time_period, f.hour, FALSE, f.save_history,
        f.entries + 1, f.steps + 1)

\* select, lines 182-185, for the frame in call
recent_ids_in_frame == IF call.avoid_recent THEN _get_recent_ids(RecentHours) ELSE {}
preferred_in_frame == Get(ACTIVITY_BY_HOUR, call.hour, << >>)

\* select is entered: the guard of lines 171-173
EnterSelect(weather, time_period, hour, avoid_recent, save_history) ==
  /\ pc = "idle"
  /\ ncalls < MaxCalls
  /\ call' = frame(weather, time_period, hour, avoid_recent, save_history, 1, 1)
  /\ pc' = IF images = << >> THEN "returned" ELSE "probing"
  /\ result' = NoResult
  /\ ncalls' = ncalls + 1
  /\ UNCHANGED <<images, history, now, recorded, files>>

\* one turn of the loops of lines 188-215: the next pair is asked for
Probe ==
  /\ pc = "probing"
  /\ call.candidates = << >>
  /\ call.probed < Len(probe_pairs(call.weather, call.time_period))
  /\ \E pair \in {probe_pairs(call.weather, call.time_period)[call.probed + 1]} :
       call' = [call EXCEPT !.probed = @ + 1, !.steps = @ + 1,
                            !.candidates = _find_matches(pair.weather, pair.time_of_day,
                                                         recent_ids_in_frame,
                                                         preferred_in_frame)]
  /\ UNCHANGED <<images, history, now, pc, result, ncalls, recorded, files>>

\* lines 217-265: the loops are left; the sleeping-hour branch and the
\* activity relaxation
AfterStages ==
  /\ pc = "probing"
  /\ \/ call.candidates # << >>
     \/ call.probed = Len(probe_pairs(call.weather, call.time_period))
  /\ call' = [call EXCEPT !.steps = @ + 1,
                          !.candidates =
                            relax_activity(
                              sleeping_override(call.candidates, call.weather,
                                                call.time_period, call.hour,
                                                call.avoid_recent, preferred_in_frame),
                              call.weather, call.time_period, recent_ids_in_frame,
                              preferred_in_frame)]
  /\ pc' = "relaxing"
  /\ UNCHANGED <<images, history, now, result, ncalls, recorded, files>>

\* lines 267-270: select enters itself
Reenter ==
  /\ pc = "relaxing"
  /\ call.candidates = << >> /\ call.avoid_recent
  /\ call.entries < MaxEntries
  /\ call' = reentered(call)
  /\ pc' = "probing"
  /\ UNCHANGED <<images, history, now, result, ncalls, recorded, files>>

\* lines 272-304: the ultimate fallback, the draw and the record; the value
\* goes back through every entry of select unchanged
Conclude ==
  /\ pc = "relaxing"
  /\ ~(call.candidates = << >> /\ call.avoid_recent)
  /\ \E r \in Draws :
       \E out \in {choose_and_save(OrElse(call.candidates, ultimate_fallback(call.hour)),
                                   r, call.save_history)} :
         /\ result' = [selected |-> out.selected, raised |-> out.raised]
         /\ history' = out.history
  /\ call' = [call EXCEPT !.steps = @ + 1]
  /\ pc' = "returned"
  /\ UNCHANGED <<images, now, ncalls, recorded, files>>

InitSteps ==
  /\ images \in LoadCatalogs
  /\ history = [selections |-> << >>]
  /\ now = 0
  /\ pc = "idle"
  /\ call = NoCall
  /\ result = NoResult
  /\ ncalls = 0
  /\ files = NoFiles
  /\ recorded = << >>

NextSteps ==
  \/ \E weather \in QueryWeather, time_period \in QueryTime, hour \in Hours,
        avoid_recent \in BOOLEAN, save_history \in BOOLEAN :
       EnterSelect(weather, time_period, hour, avoid_recent, save_history)
  \/ Probe
  \/ AfterStages
  \/ Reenter
  \/ Conclude
  \/ Return
  \/ Tick

SpecSteps == InitSteps /\ [][NextSteps]_vars

InSelect == pc \in {"probing", "relaxing"}

\* the turns one entry of select can take: the entry, one per pair, and the
\* branch after the loops
TurnsPerEntry == Len(probe_pairs(call.weather, call.time_period)) + 2

\* C21: select terminates: it enters itself at most once, and only with
\* avoid_recent=False; each entry asks the matcher at most once per pair of
\* the finite chains, so a call takes at most twice the turns of one entry
\* and one more for the draw, and until it returns its next turn is always
\* possible.
C21_SelectTerminates ==
  (pc \in {"probing", "relaxing", "returned"}) =>
    /\ call.entries <= 2
    /\ call.entries = 2 => ~call.avoid_recent
    /\ call.probed <= Len(probe_pairs(call.weather, call.time_period))
    /\ call.steps <= 2 * TurnsPerEntry + 1
    /\ InSelect => ENABLED (Probe \/ AfterStages \/ Reenter \/ Conclude)

\* a call that went through the recency relaxation has returned
C21_Witness ==
  /\ Returned /\ call.entries = 2
  /\ call.probed = Len(probe_pairs(call.weather, call.time_period))
  /\ result.selected # << >>

(* --------------------------- the weather command ----------------------- *)
\* the hours of the day, and OpenWeatherMap codes at the ends of the ranges
\* of WEATHER_MAPPING and outside them
DayHours == 0..23
WeatherCodes == {0, 211, 300, 504, 505, 622, 741, 781, 800, 801, 802, 804, 999}

\* fetch_weather.main, lines 261-276: the weather and the cache afterwards
main_weather(mock, api, current_hour, cache) ==
  IF mock # << >>
  THEN [weather |-> get_mock_weather(mock, current_hour), cache |-> cache]
  ELSE fetch_with_fallback(api, current_hour, cache)

InitWeather ==
  /\ images = << >>
  /\ history = [selections |-> << >>]
  /\ now = 0
  /\ pc = "idle"
  /\ call = NoCall
  /\ result = NoResult
  /\ ncalls = 0
  /\ files = NoFiles
  /\ recorded = << >>

\* python fetch_weather.py [--mock MOCK]: the weather is fetched and saved
FetchMain(mock, api, current_hour) ==
  /\ pc = "idle"
  /\ ncalls < MaxCalls
  /\ \E fetched \in {main_weather(mock, api, current_hour, files.cache)} :
       /\ files' = [files EXCEPT !.cache = fetched.cache, !.weather = <<fetched.weather>>]
       /\ result' = [selected |-> << >>, raised |-> "", weather |-> fetched.weather]
  /\ call' = [op |-> "fetch", mock |-> mock, api |-> api, current_hour |-> current_hour]
  /\ ncalls' = ncalls + 1
  /\ pc' = "exited"
  /\ UNCHANGED <<images, history, now, recorded>>

NextWeather ==
  \/ \E mock \in MockArgs, api \in {<< >>} \cup {<<c>> : c \in WeatherCodes},
        current_hour \in DayHours :
       FetchMain(mock, api, current_hour)
  \/ Exit

SpecWeather == InitWeather /\ [][NextWeather]_vars

\* the weather of the run was made in this run, from its clock
Fresh == Exited /\ call.op = "fetch" /\ result.weather.source # "cache"

\* TestTimePeriodCalculation: the period each tested hour should give
TestedPeriods ==
  (5 :> L.Dawn) @@ (6 :> L.Dawn)
  @@ (7 :> L.Morning) @@ (9 :> L.Morning) @@ (11 :> L.Morning)
  @@ (12 :> L.Afternoon) @@ (14 :> L.Afternoon) @@ (15 :> L.Afternoon)
  @@ (16 :> L.Evening) @@ (17 :> L.Evening) @@ (18 :> L.Evening)
  @@ (21 :> L.Night) @@ (23 :> L.Night) @@ (2 :> L.Night)

\* C22: get_time_period(hour, 6, 18) gives Dawn for hours 5 and 6, Morning
\* for 7, 9 and 11, Afternoon for 12, 14 and 15, Evening for 16, 17 and 18,
\* Night for 21, 23 and 2.
C22_TimePeriodsOfTests ==
  (Fresh /\ call.current_hour \in DOMAIN TestedPeriods)
    => /\ result.weather.time_period = get_time_period(call.current_hour)
       /\ get_time_period(call.current_hour) = TestedPeriods[call.current_hour]

\* C29: every weather label normalize_weather gives and every time label
\* get_time_period gives for the hours 0-23 is a key of WEATHER_FALLBACKS or
\* TIME_FALLBACKS of select_image.py, so the query a run of the weather
\* command writes has a non-empty chain for both labels.
C29_LiveLabelsAreKeys ==
  /\ \A weather_id \in WeatherCodes :
       weather_fallbacks(normalize_weather(weather_id)) # << >>
  /\ \A hour \in DayHours : time_fallbacks(get_time_period(hour)) # << >>
  /\ (Exited /\ call.op = "fetch")
       => /\ result.weather.condition \in DOMAIN WEATHER_FALLBACKS
          /\ weather_fallbacks(result.weather.condition) # << >>
          /\ result.weather.time_period \in DOMAIN TIME_FALLBACKS
          /\ time_fallbacks(result.weather.time_period) # << >>

\* the API answered with a code of the dust and sand range, in the hour
\* before sunset: both labels are the ones the tests of the tables leave out
C29_Witness ==
  /\ Exited /\ call.op = "fetch"
  /\ result.weather.source = "OpenWeatherMap"
  /\ result.weather.condition = L.Windy
  /\ result.weather.time_period = L.GoldenHour

(* ------------------------ the matcher, call by call -------------------- *)
\* the matcher has just been asked for a pair: call.candidates is what
\* _find_matches returned for it
Probed == pc = "probing" /\ call.probed >= 1
ProbedPair == probe_pairs(call.weather, call.time_period)[call.probed]

\* the records that pass the holiday, weather, time and exclusion filters
\* for the pair, and those left by the activity preference
Survivors == matches_of(ProbedPair.weather, ProbedPair.time_of_day, recent_ids_in_frame)
Preferred == activity_override(Survivors, preferred_in_frame)

\* a display location of any kind: the CDN URL, a url or a file name
resolvable(img) ==
  has_url(img) \/ Get(img, "url", << >>) # << >> \/ Get(img, "filename", << >>) # << >>

\* C23: when no surviving record has a usable CDN URL, find_matches returns
\* the survivors with any resolvable URL, and failing those all survivors; it
\* returns nothing only when no record survives the filters.
C23_MatcherLastResort ==
  Probed =>
    /\ call.candidates =
         OrElse(SelectSeq(Preferred, has_url), OrElse(SelectSeq(Preferred, resolvable), Preferred))
    /\ call.candidates = << >> => Survivors = << >>

\* select one loop turn at a time, on the catalogs of up to MaxImages records
SpecStepsWide == Init /\ [][NextSteps]_vars

\* the survivors with a preferred term of the hour in the activity or title
PreferredSurvivors ==
  LET Act(img) == activity_match(img, preferred_in_frame) IN SelectSeq(Survivors, Act)

\* C24: in find_matches the activity preference is a hard override applied
\* before the URL filter: when a survivor of the holiday, weather, time and
\* exclusion filters has a preferred term in its activity or title, the
\* result is the URL-bearing ones among such survivors and nothing else;
\* when none has, it is the URL-bearing survivors.
C24_ActivityHardOverride ==
  Probed =>
    /\ PreferredSurvivors # << >> => call.candidates = SelectSeq(PreferredSurvivors, has_url)
    /\ PreferredSurvivors = << >> => call.candidates = SelectSeq(Survivors, has_url)

\* the override at work: a survivor with a URL is left out because another
\* survivor, without one, carries the preferred term
C24_Witness ==
  /\ Probed
  /\ PreferredSurvivors # << >>
  /\ call.candidates = << >>
  /\ \E i \in 1..Len(Survivors) : has_url(Survivors[i])

(* --------------------- the weighted draw on a fine grid ---------------- *)
\* records with ratings: scores on both sides of the clamp, totals on both
\* sides of the threshold of five, and a record that was never rated
RatedPool ==
  << [id |-> "31", rating_score |-> -10, total_ratings |-> 5, cloudinary_url |-> Url],
     [id |-> "32", rating_score |-> 10, total_ratings |-> 10, cloudinary_url |-> Url],
     [id |-> "33", rating_score |-> 25, total_ratings |-> 7, cloudinary_url |-> Url],
     [id |-> "34", rating_score |-> -25, total_ratings |-> 9, cloudinary_url |-> Url],
     [id |-> "35", rating_score |-> 10, total_ratings |-> 4, cloudinary_url |-> Url],
     [id |-> "36", cloudinary_url |-> Url],
     [id |-> "37", rating_score |-> -3, total_ratings |-> 5, cloudinary_url |-> Url],
     [id |-> "38", rating_score |-> -10, total_ratings |-> 2, cloudinary_url |-> Url] >>

\* "total_weight = sum(weights)", in tenths
total_weight10(candidates) == cumulative10(candidates, Len(candidates))

\* the values of random.random() the model draws for a candidate list are
\* num / DrawGrid for num in 0..DrawGrid-1: half a tenth of weight apart, so
\* that every interval of the cumulative distribution holds one of them
DrawGrid(candidates) == 2 * total_weight10(candidates)
DrawNums(candidates) ==
  IF DrawGrid(candidates) = 0 THEN {0} ELSE 0..(DrawGrid(candidates) - 1)

\* "cumulative += prob; if r <= cumulative: return candidates[i]" for the
\* draw r = num / den: the first index whose cumulative probability reaches r
RECURSIVE first_hit_at(_, _, _, _, _)
first_hit_at(candidates, num, den, total_weight, i) ==
  IF i >= Len(candidates) \/ num * total_weight <= cumulative10(candidates, i) * den
  THEN i
  ELSE first_hit_at(candidates, num, den, total_weight, i + 1)

\* ImageSelector._weighted_random_choice with random.random() = num / den;
\* with a total weight of zero the code draws uniformly (random.choice)
_weighted_random_choice_at(candidates, num, den) ==
  IF candidates = << >> THEN {<< >>}
  ELSE IF Len(candidates) = 1 THEN {<<candidates[1]>>}
  ELSE IF total_weight10(candidates) = 0 THEN {<<candidates[i]>> : i \in 1..Len(candidates)}
  ELSE {<<candidates[first_hit_at(candidates, num, den, total_weight10(candidates), 1)]>>}

InitDraw ==
  /\ images \in SubListsOf(RatedPool, 1, MaxImages)
  /\ history = [selections |-> << >>]
  /\ now = 0
  /\ pc = "idle"
  /\ call = NoCall
  /\ result = NoResult
  /\ ncalls = 0
  /\ files = NoFiles
  /\ recorded = << >>

\* self._weighted_random_choice(candidates) on the whole catalog, as in the
\* last resort of select
Draw(num) ==
  /\ pc = "idle"
  /\ ncalls < MaxCalls
  /\ \E selected \in _weighted_random_choice_at(images, num, DrawGrid(images)) :
       result' = [selected |-> selected, raised |-> ""]
  /\ call' = [op |-> "draw", candidates |-> images, num |-> num, den |-> DrawGrid(images)]
  /\ ncalls' = ncalls + 1
  /\ pc' = "returned"
  /\ UNCHANGED <<images, history, now, recorded, files>>

NextDraw ==
  \/ \E num \in DrawNums(images) : Draw(num)
  \/ Return

SpecDraw == InitDraw /\ [][NextDraw]_vars

Drawn == pc = "returned" /\ call.op = "draw"

\* the weight the specification gives a candidate, in tenths
claimed_weight10(img) ==
  IF Get(img, "total_ratings", 0) >= 5
  THEN SetMax({1, SetMin({30, 10 + Get(img, "rating_score", 0)})})
  ELSE 10

RECURSIVE claimed_cumulative10(_, _)
claimed_cumulative10(candidates, i) ==
  IF i = 0 THEN 0 ELSE claimed_cumulative10(candidates, i - 1) + claimed_weight10(candidates[i])

\* the draw num / den falls in the interval of candidate i under the claimed
\* weights
InClaimedInterval(candidates, num, den, i) ==
  LET total == claimed_cumulative10(candidates, Len(candidates))
  IN  /\ num * total <= claimed_cumulative10(candidates, i) * den
      /\ i > 1 => num * total > claimed_cumulative10(candidates, i - 1) * den

C30_EveryCandidateReachable ==
  (Drawn /\ call.candidates # << >>) =>
    /\ result.selected # << >>
    /\ result.selected[1] \in Range(call.candidates)
    /\ \A i \in 1..Len(call.candidates) : weight10(call.candidates[i]) >= 1
    /\ total_weight10(call.candidates) > 0
    /\ \A i \in 1..Len(call.candidates) :
         \E num \in DrawNums(call.candidates) :
           /\ num < call.den
           /\ _weighted_random_choice_at(call.candidates, num, call.den)
                = {<<call.candidates[i]>>}

\* the draw returned the last of two candidates, whose weight is the floor
\* of 0.1 while the other weighs 3.0
C30_Witness ==
  /\ Drawn
  /\ Len(call.candidates) = 2
  /\ weight10(call.candidates[1]) = 30
  /\ weight10(call.candidates[2]) = 1
  /\ result.selected = <<call.candidates[2]>>

(* ------------------- the ultimate fallback, hour by hour --------------- *)
\* hours on both sides of the limits of the quiet hours and of the sleeping
\* hours
QuietHours == {3, 7, 8, 21, 22}

\* select one loop turn at a time, without recording, at these hours
NextQuiet ==
  \/ \E weather \in QueryWeather, time_period \in QueryTime, hour \in QuietHours,
        avoid_recent \in BOOLEAN :
       EnterSelect(weather, time_period, hour, avoid_recent, FALSE)
  \/ Probe
  \/ AfterStages
  \/ Reenter
  \/ Conclude
  \/ Return

SpecQuiet == Init /\ [][NextQuiet]_vars

\* select has returned after drawing from the ultimate fallback: the stages
\* and relaxations had left no candidate
FallbackReached ==
  /\ pc = "returned" /\ call.op = "select"
  /\ images # << >>
  /\ call.candidates = << >>

IsQuietHour == call.hour >= 22 \/ call.hour <= 7

\* sleeping, waking up or morning routine in the activity or the title
Permitted(img) ==
  \E act \in {lower(L.Sleeping), lower(L.WakingUp), lower(L.MorningRoutine)} :
    \/ in_(act, lower(Get(img, "activity", << >>)))
    \/ in_(act, lower(Get(img, "title", << >>)))

UrlBearing == SelectSeq(images, has_url)
PermittedUrlBearing == SelectSeq(UrlBearing, Permitted)

\* the records the claim has the ultimate fallback draw from
ClaimedFallback ==
  IF IsQuietHour /\ PermittedUrlBearing # << >> THEN PermittedUrlBearing ELSE UrlBearing

\* C26 as stated: when the global fallback is reached in the quiet hours
\* (22-07) and a URL-bearing record has a permitted activity in its activity
\* or title, the record returned is such a record; otherwise it is drawn
\* from the URL-bearing records.
C26_Original ==
  FallbackReached => (result.selected # << >> /\ Selected \in Range(ClaimedFallback))

\* C26, amended: as stated whenever the catalog has a URL-bearing record,
\* the draw being made from exactly the claimed records; when it has none,
\* the global fallback draws from the whole catalog.
C26_Amended ==
  FallbackReached =>
    /\ result.selected # << >>
    /\ UrlBearing # << >> =>
         /\ ultimate_fallback(call.hour) = ClaimedFallback
         /\ Selected \in Range(ClaimedFallback)
    /\ UrlBearing = << >> =>
         /\ ultimate_fallback(call.hour) = images
         /\ Selected \in Range(images)

\* at 7 o'clock, a quiet hour that is not a sleeping hour, the fallback
\* returned a permitted record although the catalog holds a URL-bearing
\* record of another activity
C26_Witness ==
  /\ FallbackReached
  /\ call.hour = 7
  /\ Permitted(Selected)
  /\ \E i \in 1..Len(images) : has_url(images[i]) /\ ~Permitted(images[i])

(* ------------------------- the sleeping-hour branch -------------------- *)
\* what stages 1-4 of the call found among the records not shown recently
StageCandidates ==
  stages_1_to_4(call.weather, call.time_period, ExcludedAtCall, PrefsAtCall)

\* a call in the sleeping hours that avoids recent records and whose stages
\* found candidates
SleepingCall ==
  /\ GotRecord /\ call.op = "select"
  /\ call.avoid_recent
  /\ is_sleeping_hour(call.hour)
  /\ StageCandidates # << >>

\* C27: in the sleeping hours (22-05) recency is relaxed only in favour of
\* records of the preferred activity: when stages 1-4 of a select with
\* avoid_recent found candidates that were not shown recently, the record
\* returned is one of them or a record whose activity or title carries the
\* preferred activity of the hour; a recently shown record without it is
\* never returned.
C27_SleepingRelaxesForActivityOnly ==
  SleepingCall =>
    /\ (Selected \in Range(StageCandidates) \/ activity_match(Selected, PrefsAtCall))
    /\ Get(Selected, "id", << >>) \in RecentAtCall => activity_match(Selected, PrefsAtCall)

(* ----------------------- one record for each call ---------------------- *)
\* a recording call of select on a non-empty catalog has returned
RecordingCall ==
  /\ pc = "returned" /\ call.op = "select"
  /\ images # << >>
  /\ call.save_history

\* C28: each select with save_history=True on a non-empty catalog appends
\* exactly one entry to the history, carrying the id of the record returned
\* and the time of the call, also when the recency relaxation made select
\* enter itself: the outer call returns the inner result without recording
\* again.
C28_OneRecordPerCall ==
  RecordingCall =>
    /\ result.raised = "" /\ result.selected # << >>
    /\ Len(history.selections) = Len(call.history.selections) + 1
    /\ history.selections =
         Append(call.history.selections, [id |-> Selected.id, timestamp |-> call.now])

\* a recording call that went through the recency relaxation: the record
\* returned was shown recently and is now in the history once more
C28_Witness ==
  /\ RecordingCall
  /\ call.entries = 2
  /\ result.selected # << >> /\ Selected.id \in RecentAtCall
  /\ Len(history.selections) = 2
====
